---------------------------- MODULE Spec2Model ----------------------------
(***************************************************************************)
(* Model of the DOMES CLI wire protocol (tools/domes-cli): the frame codec *)
(* and streaming decoder (transport/frame.rs), the three transport         *)
(* backends (transport/serial.rs, tcp.rs, ble.rs, mod.rs) and the OTA      *)
(* update engine (commands/ota.rs).                                        *)
(*                                                                         *)
(* TLC integers are 32-bit signed, so a u32 is kept as two 16-bit halves.  *)
(***************************************************************************)
EXTENDS Integers, Sequences, FiniteSets, TLC

VARIABLES
    input,      \* the (msg_type, payload) handed to encode_frame
    enc,        \* what encode_frame returned
    wire,       \* the bytes put on the medium for the decoder
    pos,        \* how many bytes of wire were fed to the decoder
    corrupted,  \* index of the wire byte the medium altered (0: none)
    decoder,    \* the FrameDecoder struct
    last,       \* what the latest feed_byte call returned
    lastByte,   \* the byte given to the latest feed_byte call (-1: none)
    nresults,   \* feed_byte calls since new()/reset() that returned Some(..)
    clean,      \* the decoder was fresh when the first wire byte was fed
    prefixLen,  \* noise bytes fed since new()/reset(), ahead of the frame
    prefixMarker, \* one of those noise bytes was START_BYTE_0
    backend,    \* which Transport the channel is: "serial", "tcp" or "ble"
    auto_reconnect, \* BleTransport.auto_reconnect
    prog,       \* what the caller runs: "commands" or "ota" ("none": nothing)
    link,       \* the physical connection: "up" or "down"
    rxBytes,    \* serial/TCP: bytes the medium holds for the next reads
    queue,      \* BLE: the notifications in rx_receiver's channel
    senderAlive, \* BLE: the forwarding task still holds the channel's sender
    answered,   \* how many written requests the device has replied to
    noiseSent,  \* stray bytes the device has put on the medium
    pc,         \* "idle": between calls; "recv": inside receive_frame's loop;
                \* "ota_send": ota_flash between two send_and_wait_ack calls
    cur,        \* the caller's operation in progress, or the last one; recon
                \* counts the reconnects made by its current receive_frame
    ret,        \* what the last finished command returned
    recvRet,    \* what the last finished receive_frame returned
    expired,    \* the running receive_frame's timeout has elapsed
    rxTimeout,  \* timeout_ms of the running (or last) receive_frame
    lastRead,   \* what the last read of the medium returned
    ncmds,      \* commands issued so far
    written,    \* the frames written to the medium, oldest first
    outstanding, \* written requests whose receive_frame has not returned
    reconnects, \* calls of BleTransport::reconnect so far
    stackOps    \* what the last reconnect did on the BLE stack, in order

codecVars == <<input, enc, wire, pos, corrupted>>
decVars == <<decoder, last, lastByte, nresults, clean, prefixLen, prefixMarker>>
cfgVars == <<backend, auto_reconnect, prog>>
mediumVars == <<link, rxBytes, queue, senderAlive, answered, noiseSent>>
callVars == <<pc, cur, ret, recvRet, expired, rxTimeout, lastRead, ncmds>>
histVars == <<written, outstanding, reconnects, stackOps>>
chanVars == <<cfgVars, mediumVars, callVars, histVars>>
vars == <<codecVars, decVars, chanVars>>

--------------------------------------------------------------------------
(* Bounds of the model *)

\* longest payload enumerated byte by byte
MaxShortLen == 2
\* noise bytes the medium may deliver ahead of a frame
MaxNoise == 2
\* bytes fed to a bare decoder in SpecDecoder
MaxRaw == 7
\* commands a caller issues on one channel
MaxCmds == 2
\* stray bytes the device emits on one channel
MaxChanNoise == 1
\* reconnect attempts on one channel
MaxReconnects == 1
MaxNotifyLen == 12
MaxQueued == 2
MaxNotifications == 36
\* longest version string given to ota_flash in the Begin scenario
MaxVersionLen == 34

--------------------------------------------------------------------------
(* Machine integers *)

\* bitwise exclusive or, bit by bit
RECURSIVE XorBits(_, _)
XorBits(a, b) ==
    IF a = 0 THEN b
    ELSE IF b = 0 THEN a
    ELSE (((a % 2) + (b % 2)) % 2) + 2 * XorBits(a \div 2, b \div 2)

\* the exclusive or of every pair of bytes, computed once
XorTable ==
    SubSeq([k \in 1..65536 |-> XorBits((k - 1) \div 256, (k - 1) % 256)],
           1, 65536)

\* a ^ b on u8 and on u16
BitXor(a, b) == XorTable[a * 256 + b + 1]
BitXor16(a, b) ==
    BitXor(a \div 256, b \div 256) * 256 + BitXor(a % 256, b % 256)

RECURSIVE BitOr(_, _)
BitOr(a, b) ==
    IF a = 0 THEN b
    ELSE IF b = 0 THEN a
    ELSE (IF (a % 2) + (b % 2) > 0 THEN 1 ELSE 0) + 2 * BitOr(a \div 2, b \div 2)

U8 == 0..255
AsU16(n) == n % 65536

\* a u32 as its high and low 16 bits
U32(h, l) == [hi |-> h, lo |-> l]
Xor32(a, b) == U32(BitXor16(a.hi, b.hi), BitXor16(a.lo, b.lo))
Shr32(a, n) ==
    U32(a.hi \div (2^n), (a.lo \div (2^n)) + (a.hi % (2^n)) * (2^(16 - n)))

\* u16::to_le_bytes
U16ToLeBytes(n) == <<n % 256, n \div 256>>
\* u32::to_le_bytes
U32ToLeBytes(c) == <<c.lo % 256, c.lo \div 256, c.hi % 256, c.hi \div 256>>
\* u32::from_le_bytes
U32FromLeBytes(b) == U32(b[3] + 256 * b[4], b[1] + 256 * b[2])

--------------------------------------------------------------------------
(* crc32fast::Hasher: CRC-32 (IEEE 802.3), reflected, polynomial           *)
(* 0xEDB88320, initial value and final xor 0xFFFFFFFF.                     *)

CRC_POLY == U32(60856, 33568)
CRC_ONES == U32(65535, 65535)

RECURSIVE CrcTableEntry(_, _)
CrcTableEntry(c, k) ==
    IF k = 0 THEN c
    ELSE CrcTableEntry(IF c.lo % 2 = 1 THEN Xor32(CRC_POLY, Shr32(c, 1))
                                       ELSE Shr32(c, 1),
                       k - 1)

\* the 256-entry table, entry n at index n + 1
CrcTable == SubSeq([n \in 1..256 |-> CrcTableEntry(U32(0, n - 1), 8)], 1, 256)

CrcStep(crc, byte) ==
    Xor32(CrcTable[BitXor(crc.lo % 256, byte) + 1], Shr32(crc, 8))

\* Hasher::update over s[lo..hi]; the left half is evaluated before the
\* right one is entered, which keeps TLC's evaluation stack logarithmic.
RECURSIVE CrcUpdate(_, _, _, _)
CrcUpdate(crc, s, lo, hi) ==
    IF lo > hi THEN crc
    ELSE IF lo = hi THEN CrcStep(crc, s[lo])
    ELSE LET mid == (lo + hi) \div 2
             left == CrcUpdate(crc, s, lo, mid)
         IN  IF left.lo >= 0 THEN CrcUpdate(left, s, mid + 1, hi) ELSE left

\* Hasher::new(); update(&[msg_type]); update(payload); finalize()
Crc32(msg_type, payload) ==
    Xor32(CrcUpdate(CrcStep(CRC_ONES, msg_type), payload, 1, Len(payload)),
          CRC_ONES)

--------------------------------------------------------------------------
(* transport/frame.rs *)

START_BYTE_0 == 170
START_BYTE_1 == 85
MAX_PAYLOAD_SIZE == 1024
FRAME_OVERHEAD == 9

None == [kind |-> "None"]
OkFrame(t, p) == [kind |-> "Frame", msg_type |-> t, payload |-> p]
PayloadTooLarge(n) == [kind |-> "PayloadTooLarge", size |-> n]
InvalidLength(n) == [kind |-> "InvalidLength", length |-> n]
CrcMismatch(e, a) == [kind |-> "CrcMismatch", expected |-> e, actual |-> a]
OkBytes(b) == [kind |-> "Bytes", bytes |-> b]

\* encode_frame with the size check off by one (>= for >)
encode_frame_RejectsMax(msg_type, payload) ==
    IF Len(payload) >= MAX_PAYLOAD_SIZE
    THEN PayloadTooLarge(Len(payload))
    ELSE LET length == AsU16(1 + AsU16(Len(payload)))
             crc == Crc32(msg_type, payload)
         IN  OkBytes(<<START_BYTE_0, START_BYTE_1>>
                     \o U16ToLeBytes(length)
                     \o <<msg_type>>
                     \o payload
                     \o U32ToLeBytes(crc))

\* encode_frame with the CRC written most significant byte first
encode_frame_BigEndianCrc(msg_type, payload) ==
    IF Len(payload) > MAX_PAYLOAD_SIZE
    THEN PayloadTooLarge(Len(payload))
    ELSE LET length == AsU16(1 + AsU16(Len(payload)))
             crc == Crc32(msg_type, payload)
             le == U32ToLeBytes(crc)
         IN  OkBytes(<<START_BYTE_0, START_BYTE_1>>
                     \o U16ToLeBytes(length)
                     \o <<msg_type>>
                     \o payload
                     \o <<le[4], le[3], le[2], le[1]>>)

encode_frame(msg_type, payload) ==
    IF Len(payload) > MAX_PAYLOAD_SIZE
    THEN PayloadTooLarge(Len(payload))
    ELSE LET length == AsU16(1 + AsU16(Len(payload)))
             crc == Crc32(msg_type, payload)
         IN  OkBytes(<<START_BYTE_0, START_BYTE_1>>
                     \o U16ToLeBytes(length)
                     \o <<msg_type>>
                     \o payload
                     \o U32ToLeBytes(crc))

FrameDecoder_new ==
    [state |-> "WaitStart0", length |-> 0, msg_type |-> 0, payload |-> <<>>,
     crc_bytes |-> <<0, 0, 0, 0>>, crc_index |-> 0, payload_index |-> 0]

\* a reset that leaves length and payload as they are
reset_KeepsBuffer(d) ==
    [state |-> "WaitStart0", length |-> d.length, msg_type |-> 0,
     payload |-> d.payload, crc_bytes |-> <<0, 0, 0, 0>>, crc_index |-> 0,
     payload_index |-> 0]

reset(d) ==
    [state |-> "WaitStart0", length |-> 0, msg_type |-> 0, payload |-> <<>>,
     crc_bytes |-> <<0, 0, 0, 0>>, crc_index |-> 0, payload_index |-> 0]

Step(d, r) == [dec |-> d, res |-> r]

\* WaitStart0 that gives up on a byte that is not the start marker
feed_WaitStart0_Strict(d, byte) ==
    IF byte = START_BYTE_0
    THEN Step([d EXCEPT !.state = "WaitStart1"], None)
    ELSE Step([d EXCEPT !.state = "Error"], None)

feed_WaitStart0(d, byte) ==
    IF byte = START_BYTE_0
    THEN Step([d EXCEPT !.state = "WaitStart1"], None)
    ELSE Step(d, None)

\* WaitStart1 that starts over on a second 0xAA
feed_WaitStart1_NoDouble(d, byte) ==
    IF byte = START_BYTE_1
    THEN Step([d EXCEPT !.state = "WaitLenLow"], None)
    ELSE Step([d EXCEPT !.state = "WaitStart0"], None)

feed_WaitStart1(d, byte) ==
    IF byte = START_BYTE_1
    THEN Step([d EXCEPT !.state = "WaitLenLow"], None)
    ELSE IF byte = START_BYTE_0
    THEN Step(d, None)
    ELSE Step([d EXCEPT !.state = "WaitStart0"], None)

feed_WaitLenLow(d, byte) ==
    Step([d EXCEPT !.length = byte, !.state = "WaitLenHigh"], None)

\* WaitLenHigh that rejects the largest valid length (>= for >)
feed_WaitLenHigh_RejectsMax(d, byte) ==
    LET len == BitOr(d.length, AsU16(byte * 256))
    IN  IF len = 0 \/ len >= AsU16(MAX_PAYLOAD_SIZE + 1)
        THEN Step([d EXCEPT !.length = len, !.state = "Error"],
                  InvalidLength(len))
        ELSE Step([d EXCEPT !.length = len, !.state = "WaitType"], None)

feed_WaitLenHigh(d, byte) ==
    LET len == BitOr(d.length, AsU16(byte * 256))
    IN  IF len = 0 \/ len > AsU16(MAX_PAYLOAD_SIZE + 1)
        THEN Step([d EXCEPT !.length = len, !.state = "Error"],
                  InvalidLength(len))
        ELSE Step([d EXCEPT !.length = len, !.state = "WaitType"], None)

\* WaitType that also buffers the type byte as the first payload byte
feed_WaitType_TypeInPayload(d, byte) ==
    LET payload_len == d.length - 1
    IN  IF payload_len = 0
        THEN Step([d EXCEPT !.msg_type = byte, !.payload = <<byte>>,
                            !.payload_index = 0, !.state = "WaitCrc",
                            !.crc_index = 0], None)
        ELSE Step([d EXCEPT !.msg_type = byte, !.payload = <<byte>>,
                            !.payload_index = 0, !.state = "WaitPayload"],
                  None)

feed_WaitType(d, byte) ==
    LET payload_len == d.length - 1
    IN  IF payload_len = 0
        THEN Step([d EXCEPT !.msg_type = byte, !.payload = <<>>,
                            !.payload_index = 0, !.state = "WaitCrc",
                            !.crc_index = 0], None)
        ELSE Step([d EXCEPT !.msg_type = byte, !.payload = <<>>,
                            !.payload_index = 0, !.state = "WaitPayload"],
                  None)

\* WaitPayload that reads one payload byte too many (> for >=)
feed_WaitPayload_OneMore(d, byte) ==
    LET payload_len == d.length - 1
        d1 == [d EXCEPT !.payload = Append(d.payload, byte),
                        !.payload_index = d.payload_index + 1]
    IN  IF d1.payload_index > payload_len
        THEN Step([d1 EXCEPT !.state = "WaitCrc", !.crc_index = 0], None)
        ELSE Step(d1, None)

feed_WaitPayload(d, byte) ==
    LET payload_len == d.length - 1
        d1 == [d EXCEPT !.payload = Append(d.payload, byte),
                        !.payload_index = d.payload_index + 1]
    IN  IF d1.payload_index >= payload_len
        THEN Step([d1 EXCEPT !.state = "WaitCrc", !.crc_index = 0], None)
        ELSE Step(d1, None)

\* WaitCrc that compares only the low 16 bits of the checksum
\* WaitCrc that returns the Frame without comparing the checksum
feed_WaitCrc_Unchecked(d, byte) ==
    LET d1 == [d EXCEPT !.crc_bytes[d.crc_index + 1] = byte,
                        !.crc_index = d.crc_index + 1]
    IN  IF d1.crc_index >= 4
        THEN Step([d1 EXCEPT !.state = "Complete", !.payload = <<>>],
                  OkFrame(d1.msg_type, d1.payload))
        ELSE Step(d1, None)

feed_WaitCrc_Low16(d, byte) ==
    LET d1 == [d EXCEPT !.crc_bytes[d.crc_index + 1] = byte,
                        !.crc_index = d.crc_index + 1]
    IN  IF d1.crc_index >= 4
        THEN LET received_crc == U32FromLeBytes(d1.crc_bytes)
                 calculated_crc == Crc32(d1.msg_type, d1.payload)
             IN  IF received_crc.lo # calculated_crc.lo
                 THEN Step([d1 EXCEPT !.state = "Complete"],
                           CrcMismatch(calculated_crc, received_crc))
                 ELSE Step([d1 EXCEPT !.state = "Complete",
                                      !.payload = <<>>],
                           OkFrame(d1.msg_type, d1.payload))
        ELSE Step(d1, None)

feed_WaitCrc(d, byte) ==
    LET d1 == [d EXCEPT !.crc_bytes[d.crc_index + 1] = byte,
                        !.crc_index = d.crc_index + 1]
    IN  IF d1.crc_index >= 4
        THEN LET received_crc == U32FromLeBytes(d1.crc_bytes)
                 calculated_crc == Crc32(d1.msg_type, d1.payload)
             IN  IF received_crc # calculated_crc
                 THEN Step([d1 EXCEPT !.state = "Complete"],
                           CrcMismatch(calculated_crc, received_crc))
                 ELSE Step([d1 EXCEPT !.state = "Complete",
                                      !.payload = <<>>],
                           OkFrame(d1.msg_type, d1.payload))
        ELSE Step(d1, None)

\* a decoder that starts the next frame by itself after a result
feed_byte_Restarts(d, byte) ==
    CASE d.state = "WaitStart0" -> feed_WaitStart0(d, byte)
      [] d.state = "WaitStart1" -> feed_WaitStart1(d, byte)
      [] d.state = "WaitLenLow" -> feed_WaitLenLow(d, byte)
      [] d.state = "WaitLenHigh" -> feed_WaitLenHigh(d, byte)
      [] d.state = "WaitType" -> feed_WaitType(d, byte)
      [] d.state = "WaitPayload" -> feed_WaitPayload(d, byte)
      [] d.state = "WaitCrc" -> feed_WaitCrc(d, byte)
      [] d.state \in {"Complete", "Error"} -> feed_WaitStart0(reset(d), byte)

feed_byte(d, byte) ==
    CASE d.state = "WaitStart0" -> feed_WaitStart0(d, byte)
      [] d.state = "WaitStart1" -> feed_WaitStart1(d, byte)
      [] d.state = "WaitLenLow" -> feed_WaitLenLow(d, byte)
      [] d.state = "WaitLenHigh" -> feed_WaitLenHigh(d, byte)
      [] d.state = "WaitType" -> feed_WaitType(d, byte)
      [] d.state = "WaitPayload" -> feed_WaitPayload(d, byte)
      [] d.state = "WaitCrc" -> feed_WaitCrc(d, byte)
      [] d.state \in {"Complete", "Error"} -> Step(d, None)

--------------------------------------------------------------------------
(* Codec scenario: one (msg_type, payload) is encoded, the medium may put  *)
(* noise ahead of the frame and alter one CRC byte, and the bytes are fed  *)
(* to a FrameDecoder one at a time (the loop of the tests in frame.rs).    *)

MsgTypes == {0, 32, 170}
PayloadBytes == {0, 85, 170, 255}
ShortPayloads == UNION {[1..n -> PayloadBytes] : n \in 0..MaxShortLen}
LongLens == {255, 256, MAX_PAYLOAD_SIZE, MAX_PAYLOAD_SIZE + 1}
LongPayload(n) == SubSeq([i \in 1..n |-> (i % 7) + 1], 1, n)
Inputs ==
    {[msg_type |-> t, payload |-> p] : t \in MsgTypes, p \in ShortPayloads}
    \cup {[msg_type |-> 32, payload |-> LongPayload(n)] : n \in LongLens}
NoiseBytes == {0, 85, 170, 255}
NotCalled == [kind |-> "NotCalled"]

DecInit ==
    /\ decoder = FrameDecoder_new
    /\ last = None
    /\ lastByte = -1
    /\ nresults = 0
    /\ clean = TRUE
    /\ prefixLen = 0
    /\ prefixMarker = FALSE

NoCall == [op |-> "none"]
Unit == [kind |-> "Unit"]

\* no channel is open
ChanNone ==
    /\ backend = "none" /\ auto_reconnect = FALSE /\ prog = "none"
    /\ link = "down" /\ rxBytes = <<>> /\ queue = <<>>
    /\ senderAlive = FALSE /\ answered = 0 /\ noiseSent = 0
    /\ pc = "idle" /\ cur = NoCall /\ ret = Unit /\ recvRet = Unit
    /\ expired = FALSE /\ rxTimeout = 0 /\ lastRead = "none" /\ ncmds = 0
    /\ written = <<>> /\ outstanding = 0 /\ reconnects = 0
    /\ stackOps = <<>>

Init ==
    /\ ChanNone
    /\ input \in Inputs
    /\ enc = NotCalled
    /\ wire = <<>>
    /\ pos = 0
    /\ corrupted = 0
    /\ DecInit

\* one call decoder.feed_byte(byte)
Feed(byte) ==
    LET s == feed_byte(decoder, byte)
    IN  /\ decoder' = s.dec
        /\ last' = s.res
        /\ lastByte' = byte
        /\ nresults' = nresults + (IF s.res = None THEN 0 ELSE 1)

\* let frame = encode_frame(msg_type, payload); on Ok the bytes go out
Encode ==
    /\ enc = NotCalled
    /\ enc' = encode_frame(input.msg_type, input.payload)
    /\ wire' = IF enc'.kind = "Bytes" THEN enc'.bytes ELSE <<>>
    /\ UNCHANGED <<input, pos, corrupted, decVars, chanVars>>

\* the medium delivers a stray byte ahead of the frame
FeedNoise(b) ==
    /\ pos = 0
    /\ prefixLen < MaxNoise
    /\ Feed(b)
    /\ prefixLen' = prefixLen + 1
    /\ prefixMarker' = (prefixMarker \/ b = START_BYTE_0)
    /\ UNCHANGED <<codecVars, clean, chanVars>>

\* the values the medium may turn byte b into
CorruptValues(b) == {(b + 1) % 256, BitXor(b, 255), BitXor(b, 1), 0, 170} \ {b}

\* the medium alters the CRC byte that is about to be read
CorruptCrc ==
    /\ corrupted = 0
    /\ pos < Len(wire)
    /\ pos + 1 > Len(wire) - 4
    /\ \E v \in CorruptValues(wire[pos + 1]) :
          wire' = [wire EXCEPT ![pos + 1] = v]
    /\ corrupted' = pos + 1
    /\ UNCHANGED <<input, enc, pos, decVars, chanVars>>

\* for byte in frame { decoder.feed_byte(byte) }
FeedWire ==
    /\ pos < Len(wire)
    /\ Feed(wire[pos + 1])
    /\ pos' = pos + 1
    /\ UNCHANGED <<input, enc, wire, corrupted, clean, prefixLen, prefixMarker,
                   chanVars>>

\* decoder.reset()
Reset ==
    /\ decoder' = reset(decoder)
    /\ last' = None
    /\ lastByte' = -1
    /\ nresults' = 0
    /\ clean' = (pos = 0)
    /\ prefixLen' = 0
    /\ prefixMarker' = FALSE
    /\ UNCHANGED <<codecVars, chanVars>>

Next ==
    \/ Encode
    \/ \E b \in NoiseBytes : FeedNoise(b)
    \/ CorruptCrc
    \/ FeedWire
    \/ Reset

Spec == Init /\ [][Next]_vars

--------------------------------------------------------------------------
(* Decoder scenario: a FrameDecoder is fed arbitrary bytes of the medium   *)
(* (at most MaxRaw between two resets) and reset at any point.             *)

RawBytes == {0, 1, 2, 4, 85, 170}

InitDecoder ==
    /\ ChanNone
    /\ input = [msg_type |-> 0, payload |-> <<>>]
    /\ enc = NotCalled
    /\ wire = <<>>
    /\ pos = 0
    /\ corrupted = 0
    /\ DecInit

\* decoder.feed_byte(b) on a byte read from the medium
FeedRaw(b) ==
    /\ prefixLen < MaxRaw
    /\ Feed(b)
    /\ prefixLen' = prefixLen + 1
    /\ prefixMarker' = (prefixMarker \/ b = START_BYTE_0)
    /\ UNCHANGED <<codecVars, clean, chanVars>>

NextDecoder ==
    \/ \E b \in RawBytes : FeedRaw(b)
    \/ Reset

SpecDecoder == InitDecoder /\ [][NextDecoder]_vars

--------------------------------------------------------------------------
(* transport/mod.rs, serial.rs, tcp.rs, ble.rs *)

OTA_CHUNK_SIZE_DEFAULT == 1016
OTA_CHUNK_SIZE_BLE == 400
SERIAL_DEFAULT_TIMEOUT_MS == 1000
TCP_DEFAULT_TIMEOUT_MS == 2000
BLE_DEFAULT_TIMEOUT_MS == 5000
\* crossbeam_channel::bounded(32)
QUEUE_CAPACITY == 32

Backends == {"serial", "tcp", "ble"}

\* max_ota_chunk_size with no override in BleTransport
max_ota_chunk_size_NoOverride(b) == OTA_CHUNK_SIZE_DEFAULT

\* Transport::max_ota_chunk_size, overridden by BleTransport only
max_ota_chunk_size(b) ==
    IF b = "ble" THEN OTA_CHUNK_SIZE_BLE ELSE OTA_CHUNK_SIZE_DEFAULT

\* every backend with the serial default
DEFAULT_TIMEOUT_MS_Same(b) == SERIAL_DEFAULT_TIMEOUT_MS

\* the DEFAULT_TIMEOUT_MS of each backend's file
DEFAULT_TIMEOUT_MS(b) ==
    CASE b = "serial" -> SERIAL_DEFAULT_TIMEOUT_MS
      [] b = "tcp" -> TCP_DEFAULT_TIMEOUT_MS
      [] b = "ble" -> BLE_DEFAULT_TIMEOUT_MS

\* an anyhow::Error, by the place that raised it
Err(what) == [kind |-> "Err", what |-> what]
\* encode_frame(..)? inside send_frame
ErrEncode(e) == [kind |-> "Err", what |-> "Encode", cause |-> e]
\* result.map_err(|e| anyhow!("Frame decode error: {}", e))
ErrDecode(e) == [kind |-> "Err", what |-> "Decode", cause |-> e]
map_err(r) == IF r.kind = "Frame" THEN r ELSE ErrDecode(r)

\* what the medium may answer to a write, and the peripheral to a reconnect
WriteOutcomes(b) ==
    IF b = "ble" THEN {"ok", "write_err"} ELSE {"ok", "write_err", "flush_err"}
ReconnectOutcomes == {"ok", "connect_fail", "subscribe_fail", "listener_fail"}
\* the reconnect outcomes send_frame can meet: it reconnects only on BLE,
\* with the link down and auto_reconnect set
SendReconnectOutcomes ==
    IF backend = "ble" /\ link # "up" /\ auto_reconnect
    THEN ReconnectOutcomes
    ELSE {"ok"}
\* what set_read_timeout may answer; only TCP calls it
SetTimeoutOutcomes == IF backend = "tcp" THEN {"ok", "fail"} ELSE {"ok"}

\* a reconnect that keeps the old rx_receiver
reconnect_KeepsListener(rc) ==
    CASE rc = "connect_fail" ->
           [res |-> Err("ReconnectFailed"), link |-> link, replaced |-> FALSE,
            ops |-> <<"connect">>]
      [] rc = "subscribe_fail" ->
           [res |-> Err("ResubscribeFailed"), link |-> "up", replaced |-> FALSE,
            ops |-> <<"connect", "subscribe">>]
      [] rc = "listener_fail" ->
           [res |-> Err("ListenerFailed"), link |-> "up", replaced |-> FALSE,
            ops |-> <<"connect", "subscribe", "notifications">>]
      [] rc = "ok" ->
           [res |-> Unit, link |-> "up", replaced |-> FALSE,
            ops |-> <<"connect", "subscribe", "notifications">>]

\* BleTransport::reconnect: peripheral.connect(), peripheral.subscribe(),
\* then setup_notification_listener (peripheral.notifications() and a new
\* forwarding task), whose receiver replaces rx_receiver; ops lists the
\* steps it got to
reconnect(rc) ==
    CASE rc = "connect_fail" ->
           [res |-> Err("ReconnectFailed"), link |-> link, replaced |-> FALSE,
            ops |-> <<"connect">>]
      [] rc = "subscribe_fail" ->
           [res |-> Err("ResubscribeFailed"), link |-> "up", replaced |-> FALSE,
            ops |-> <<"connect", "subscribe">>]
      [] rc = "listener_fail" ->
           [res |-> Err("ListenerFailed"), link |-> "up", replaced |-> FALSE,
            ops |-> <<"connect", "subscribe", "notifications">>]
      [] rc = "ok" ->
           [res |-> Unit, link |-> "up", replaced |-> TRUE,
            ops |-> <<"connect", "subscribe", "notifications",
                      "replace_rx_receiver">>]

NoReconnect == [res |-> Unit, link |-> link, replaced |-> FALSE, ops |-> <<>>]

\* the effect of one send_frame: its result, whether write was called,
\* whether the frame reached the medium, and the reconnect it made
SendEffect(r, called, wrote, recon, rcn) ==
    [res |-> r, called |-> called, wrote |-> wrote, recon |-> recon,
     link |-> rcn.link, replaced |-> rcn.replaced, ops |-> rcn.ops]

\* SerialTransport::send_frame and TcpTransport::send_frame
Stream_send_frame(msg_type, payload, w) ==
    LET frame == encode_frame(msg_type, payload)
    IN  IF frame.kind # "Bytes"
        THEN SendEffect(ErrEncode(frame), FALSE, FALSE, FALSE, NoReconnect)
        ELSE IF w = "write_err"
        THEN SendEffect(Err("WriteFailed"), TRUE, FALSE, FALSE, NoReconnect)
        ELSE IF w = "flush_err"
        THEN SendEffect(Err("FlushFailed"), TRUE, TRUE, FALSE, NoReconnect)
        ELSE SendEffect(Unit, TRUE, TRUE, FALSE, NoReconnect)

\* a BLE send_frame without ensure_connected
Ble_send_frame_NoEnsure(msg_type, payload, w, rc) ==
    LET frame == encode_frame(msg_type, payload)
    IN  IF frame.kind # "Bytes"
        THEN SendEffect(ErrEncode(frame), FALSE, FALSE, FALSE, NoReconnect)
        ELSE IF w = "write_err"
        THEN SendEffect(Err("WriteFailed"), TRUE, FALSE, FALSE, NoReconnect)
        ELSE SendEffect(Unit, TRUE, TRUE, FALSE, NoReconnect)

\* BleTransport::send_frame: ensure_connected()?, encode_frame(..)?, write
Ble_send_frame(msg_type, payload, w, rc) ==
    LET down == link # "up"
        rcn == IF down /\ auto_reconnect THEN reconnect(rc) ELSE NoReconnect
        recon == down /\ auto_reconnect
        frame == encode_frame(msg_type, payload)
    IN  IF down /\ ~auto_reconnect
        THEN SendEffect(Err("ConnectionLost"), FALSE, FALSE, FALSE, NoReconnect)
        ELSE IF rcn.res # Unit
        THEN SendEffect(rcn.res, FALSE, FALSE, recon, rcn)
        ELSE IF frame.kind # "Bytes"
        THEN SendEffect(ErrEncode(frame), FALSE, FALSE, recon, rcn)
        ELSE IF w = "write_err"
        THEN SendEffect(Err("WriteFailed"), TRUE, FALSE, recon, rcn)
        ELSE SendEffect(Unit, TRUE, TRUE, recon, rcn)

\* impl Transport for ..: send_frame
send_frame(msg_type, payload, w, rc) ==
    IF backend = "ble"
    THEN Ble_send_frame(msg_type, payload, w, rc)
    ELSE Stream_send_frame(msg_type, payload, w)

\* send_command that returns after send_frame without receive_frame
send_command_then_NoWait(sendRes) == "return"

\* send_command: self.send_frame(msg_type, payload)?; then receive_frame
send_command_then(sendRes) == IF sendRes = Unit THEN "receive" ELSE "return"

\* feed the bytes of one notification until a result: for byte in data
RECURSIVE FeedAll(_, _, _)
FeedAll(d, data, i) ==
    IF i > Len(data)
    THEN [dec |-> d, res |-> None, used |-> Len(data)]
    ELSE LET s == feed_byte(d, data[i])
         IN  IF s.res # None
             THEN [dec |-> s.dec, res |-> s.res, used |-> i]
             ELSE FeedAll(s.dec, data, i + 1)

--------------------------------------------------------------------------
(* commands/ota.rs *)

OTA_BEGIN == 1
OTA_DATA == 2
OTA_END == 3
OTA_ACK == 4
OTA_ABORT == 5
OTA_STATUS_OK == 0
OTA_STATUS_ABORTED == 8
OTA_CHUNK_SIZE == 1016
SHA256_SIZE == 32
VERSION_MAX_LEN == 32
OTA_TIMEOUT_MS == 5000
OTA_END_TIMEOUT_MS == 30000

Min(a, b) == IF a < b THEN a ELSE b

\* n as u32, for the sizes and offsets of the model (all below 2^31)
AsU32(n) == U32(n \div 65536, n % 65536)

\* the value of no OtaMsgType, standing for Option::None
OTA_MSG_NONE == 0

OtaMsgType_from_u8(value) ==
    IF value \in OTA_BEGIN..OTA_ABORT THEN value ELSE OTA_MSG_NONE

\* a status decoder that reads every byte as Ok
OtaStatus_from_u8_AllOk(value) == OTA_STATUS_OK

OtaStatus_from_u8(value) ==
    IF value <= 7 THEN value ELSE OTA_STATUS_ABORTED

\* the hash of the image; SHA-256 itself is the sha2 crate's, and the model
\* keeps only that it is 32 bytes determined by the image
compute_sha256(data) ==
    SubSeq([i \in 1..SHA256_SIZE |-> (Len(data) + i) % 256], 1, SHA256_SIZE)

\* version.unwrap_or("unknown")
VERSION_UNKNOWN == <<117, 110, 107, 110, 111, 119, 110>>

\* a Begin payload whose version field has no terminating zero
serialize_ota_begin_NoTerminator(firmware_size, sha256, version) ==
    LET copy_len == Min(Len(version), VERSION_MAX_LEN)
        version_bytes == SubSeq([i \in 1..VERSION_MAX_LEN |->
                                    IF i <= copy_len THEN version[i] ELSE 0],
                                1, VERSION_MAX_LEN)
    IN  U32ToLeBytes(AsU32(firmware_size)) \o sha256 \o version_bytes

serialize_ota_begin(firmware_size, sha256, version) ==
    LET copy_len == Min(Len(version), VERSION_MAX_LEN - 1)
        version_bytes == SubSeq([i \in 1..VERSION_MAX_LEN |->
                                    IF i <= copy_len THEN version[i] ELSE 0],
                                1, VERSION_MAX_LEN)
    IN  U32ToLeBytes(AsU32(firmware_size)) \o sha256 \o version_bytes

\* a Data payload with the offset in big-endian order
serialize_ota_data_OffsetBE(offset, data) ==
    LET b == U32ToLeBytes(AsU32(offset))
    IN  <<b[4], b[3], b[2], b[1]>> \o U16ToLeBytes(AsU16(Len(data))) \o data

serialize_ota_data(offset, data) ==
    U32ToLeBytes(AsU32(offset)) \o U16ToLeBytes(AsU16(Len(data))) \o data

\* an Ack reader that asks for the status byte only
deserialize_ota_ack_StatusOnly(payload) ==
    IF Len(payload) < 1
    THEN Err("AckTooShort")
    ELSE [kind |-> "Ack", status |-> OtaStatus_from_u8(payload[1]),
          next_offset |-> U32(0, 0)]

deserialize_ota_ack(payload) ==
    IF Len(payload) < 5
    THEN Err("AckTooShort")
    ELSE [kind |-> "Ack", status |-> OtaStatus_from_u8(payload[1]),
          next_offset |-> U32FromLeBytes(SubSeq(payload, 2, 5))]

\* an Abort reader that does not look at the payload
deserialize_ota_abort_Fixed(payload) ==
    IF payload = <<>>
    THEN Err("AbortEmpty")
    ELSE [kind |-> "Status", status |-> OTA_STATUS_ABORTED]

deserialize_ota_abort(payload) ==
    IF payload = <<>>
    THEN Err("AbortEmpty")
    ELSE [kind |-> "Status", status |-> OtaStatus_from_u8(payload[1])]

\* send_and_wait_ack: self.send_frame(..)?; then receive_frame
send_and_wait_ack_then(sendRes) ==
    IF sendRes = Unit THEN "receive" ELSE "return"

\* send_and_wait_ack after receive_frame returned r
\* a send_and_wait_ack that takes every Frame for an Ack with status Ok
wait_ack_AnyFrame(r) ==
    IF r.kind # "Frame"
    THEN r
    ELSE [kind |-> "Ack", status |-> OTA_STATUS_OK, next_offset |-> U32(0, 0)]

wait_ack(r) ==
    IF r.kind # "Frame"
    THEN r
    ELSE CASE OtaMsgType_from_u8(r.msg_type) = OTA_ACK ->
                deserialize_ota_ack(r.payload)
           [] OtaMsgType_from_u8(r.msg_type) = OTA_ABORT ->
                LET reason == deserialize_ota_abort(r.payload)
                IN  IF reason.kind = "Err"
                    THEN reason
                    ELSE [kind |-> "Err", what |-> "DeviceAborted",
                          status |-> reason.status]
           [] OTHER ->
                [kind |-> "Err", what |-> "UnexpectedResponse",
                 msg_type |-> r.msg_type]

\* the image read from the firmware file
Firmware(n) == SubSeq([i \in 1..n |-> (i % 5) + 16], 1, n)

\* ota_flash that sends the rest of the image as one chunk
OtaMessage_WholeRest(c) ==
    CASE c.phase = "begin" ->
           [msg_type |-> OTA_BEGIN,
            payload |-> serialize_ota_begin(
                            c.total, compute_sha256(Firmware(c.total)),
                            c.version),
            timeout_ms |-> OTA_TIMEOUT_MS]
      [] c.phase = "data" ->
           LET chunk == SubSeq(Firmware(c.total), c.offset + 1, c.total)
           IN  [msg_type |-> OTA_DATA,
                payload |-> serialize_ota_data(c.offset, chunk),
                timeout_ms |-> OTA_TIMEOUT_MS]
      [] c.phase = "end" ->
           [msg_type |-> OTA_END, payload |-> <<>>,
            timeout_ms |-> OTA_END_TIMEOUT_MS]

\* ota_flash that cuts its chunks at the frame payload ceiling
OtaMessage_CeilingChunk(c) ==
    CASE c.phase = "begin" ->
           [msg_type |-> OTA_BEGIN,
            payload |-> serialize_ota_begin(
                            c.total, compute_sha256(Firmware(c.total)),
                            c.version),
            timeout_ms |-> OTA_TIMEOUT_MS]
      [] c.phase = "data" ->
           LET chunk_size == Min(MAX_PAYLOAD_SIZE, c.total - c.offset)
               chunk == SubSeq(Firmware(c.total), c.offset + 1,
                               c.offset + chunk_size)
           IN  [msg_type |-> OTA_DATA,
                payload |-> serialize_ota_data(c.offset, chunk),
                timeout_ms |-> OTA_TIMEOUT_MS]
      [] c.phase = "end" ->
           [msg_type |-> OTA_END, payload |-> <<>>,
            timeout_ms |-> OTA_END_TIMEOUT_MS]

\* the frame ota_flash sends at position c, and the timeout it waits with
OtaMessage(c) ==
    CASE c.phase = "begin" ->
           [msg_type |-> OTA_BEGIN,
            payload |-> serialize_ota_begin(
                            c.total, compute_sha256(Firmware(c.total)),
                            c.version),
            timeout_ms |-> OTA_TIMEOUT_MS]
      [] c.phase = "data" ->
           LET chunk_size == Min(OTA_CHUNK_SIZE, c.total - c.offset)
               chunk == SubSeq(Firmware(c.total), c.offset + 1,
                               c.offset + chunk_size)
           IN  [msg_type |-> OTA_DATA,
                payload |-> serialize_ota_data(c.offset, chunk),
                timeout_ms |-> OTA_TIMEOUT_MS]
      [] c.phase = "end" ->
           [msg_type |-> OTA_END, payload |-> <<>>,
            timeout_ms |-> OTA_END_TIMEOUT_MS]

\* ota_flash that sends End after the first chunk
OtaAdvance_EndAfterFirst(c) ==
    CASE c.phase = "begin" -> [c EXCEPT !.phase = "data"]
      [] c.phase = "data" ->
           [c EXCEPT !.offset = c.offset + Min(OTA_CHUNK_SIZE, c.total - c.offset),
                     !.phase = "end"]
      [] c.phase = "end" -> [c EXCEPT !.phase = "complete", !.done = TRUE]

\* ota_flash that sends the same chunk again after its Ack
OtaAdvance_SameOffset(c) ==
    CASE c.phase = "begin" -> [c EXCEPT !.phase = "data"]
      [] c.phase = "data" -> c
      [] c.phase = "end" -> [c EXCEPT !.phase = "complete", !.done = TRUE]

\* ota_flash after an Ack with status Ok at position c
OtaAdvance(c) ==
    CASE c.phase = "begin" -> [c EXCEPT !.phase = "data"]
      [] c.phase = "data" ->
           LET next == c.offset + Min(OTA_CHUNK_SIZE, c.total - c.offset)
           IN  IF next < c.total
               THEN [c EXCEPT !.offset = next]
               ELSE [c EXCEPT !.offset = next, !.phase = "end"]
      [] c.phase = "end" -> [c EXCEPT !.phase = "complete", !.done = TRUE]

--------------------------------------------------------------------------
(* Channel scenario: a caller owns one Transport and runs either a         *)
(* sequence of send_command calls or one ota_flash on it; the device       *)
(* answers written requests, emits stray bytes, and the link may drop.     *)

Commands ==
    {[msg_type |-> 32, payload |-> <<>>],
     [msg_type |-> 36, payload |-> LongPayload(MAX_PAYLOAD_SIZE + 1)]}

\* the images and versions ota_flash is called with: an empty file, one
\* byte with a version longer than the field, and one chunk plus one byte
\* with no version given
LongVersion == SubSeq([i \in 1..(VERSION_MAX_LEN + 1) |-> 48 + (i % 10)],
                      1, VERSION_MAX_LEN + 1)
FlashInputs ==
    {[n |-> 0, version |-> VERSION_UNKNOWN],
     [n |-> 1, version |-> LongVersion],
     [n |-> OTA_CHUNK_SIZE + 1, version |-> VERSION_UNKNOWN]}
FileOutcomes == {"ok", "open_err", "read_err"}

\* the device's answer to command q
ReplyTo(q) == [msg_type |-> q.msg_type + 1, payload |-> <<85, 170>>]

AckOk == [msg_type |-> OTA_ACK, payload |-> <<0, 0, 0, 0, 0>>]
OtaReplies ==
    {AckOk,
     [msg_type |-> OTA_ACK, payload |-> <<2, 0, 0, 0, 0>>],
     [msg_type |-> OTA_ACK, payload |-> <<0>>],
     [msg_type |-> OTA_ABORT, payload |-> <<3>>],
     [msg_type |-> OTA_ABORT, payload |-> <<>>],
     [msg_type |-> 33, payload |-> <<>>]}

\* the bytes the device puts out for frame f: well formed, with the last
\* CRC byte wrong, or a header announcing length 0
DeviceBytes(f, how) ==
    LET b == encode_frame(f.msg_type, f.payload).bytes
    IN  CASE how = "good" -> b
          [] how = "crc" -> [b EXCEPT ![Len(b)] = BitXor(b[Len(b)], 255)]
          [] how = "len0" -> <<START_BYTE_0, START_BYTE_1, 0, 0>>

Hows == {"good", "crc", "len0"}
CommandHows == {"good", "crc"}

\* what the device may put out in answer to request q
DeviceOutputs(q) ==
    IF q.msg_type \in OTA_BEGIN..OTA_END
    THEN {DeviceBytes(f, "good") : f \in OtaReplies}
             \cup {DeviceBytes(AckOk, how) : how \in Hows}
    ELSE {DeviceBytes(ReplyTo(q), how) : how \in CommandHows}

\* the ways the BLE stack cuts bytes into notifications
Splits(b) ==
    {<<b>>, <<SubSeq(b, 1, 3), SubSeq(b, 4, Len(b))>>}

\* what the caller runs on the channel
Programs == {"commands", "ota"}

InitChan ==
    /\ backend \in Backends
    /\ auto_reconnect \in (IF backend = "ble" THEN BOOLEAN ELSE {FALSE})
    /\ prog \in Programs
    /\ link = "up" /\ rxBytes = <<>> /\ queue = <<>>
    /\ senderAlive = (backend = "ble") /\ answered = 0 /\ noiseSent = 0
    /\ pc = "idle" /\ cur = NoCall /\ ret = Unit /\ recvRet = Unit
    /\ expired = FALSE /\ rxTimeout = 0 /\ lastRead = "none" /\ ncmds = 0
    /\ written = <<>> /\ outstanding = 0 /\ reconnects = 0
    /\ stackOps = <<>>
    /\ input = [msg_type |-> 0, payload |-> <<>>]
    /\ enc = NotCalled /\ wire = <<>> /\ pos = 0 /\ corrupted = 0
    /\ DecInit

idleVars == <<codecVars, clean, prefixLen, prefixMarker, cfgVars>>

\* the state after send_frame with effect e
ApplySend(msg_type, payload, e) ==
    /\ written' = IF e.wrote
                  THEN Append(written, [msg_type |-> msg_type,
                                        payload |-> payload])
                  ELSE written
    /\ link' = e.link
    /\ queue' = IF e.replaced THEN <<>> ELSE queue
    /\ senderAlive' = IF e.replaced THEN TRUE ELSE senderAlive
    /\ reconnects' = reconnects + (IF e.recon THEN 1 ELSE 0)
    /\ stackOps' = IF e.recon THEN e.ops ELSE stackOps

\* a receive_frame that goes on with the decoder as the last call left it
ResetDecoder_Keep ==
    /\ decoder' = decoder
    /\ last' = None
    /\ lastByte' = -1
    /\ nresults' = 0

\* self.decoder.reset() at the top of receive_frame
ResetDecoder ==
    /\ decoder' = reset(decoder)
    /\ last' = None
    /\ lastByte' = -1
    /\ nresults' = 0

\* the call c ends with result r
Finish(c, r) ==
    /\ ret' = r
    /\ pc' = "idle"
    /\ cur' = [c EXCEPT !.done = TRUE]

\* a Return whose ota_flash goes on from the next_offset of a Data Ack
Return_FollowsAck(c, r, n) ==
    /\ recvRet' = r
    /\ outstanding' = IF n > 0 THEN n - 1 ELSE 0
    /\ lastRead' = "none"
    /\ IF c.op = "send_command"
       THEN Finish(c, r)
       ELSE IF c.op = "receive_loop"
       THEN IF r.kind = "Frame"
            THEN /\ cur' = [c EXCEPT !.got = Append(@, r)]
                 /\ pc' = "idle"
                 /\ ret' = r
            ELSE Finish(c, r)
       ELSE LET a == wait_ack(r)
            IN  IF a.kind # "Ack"
                THEN Finish(c, a)
                ELSE IF a.status # OTA_STATUS_OK
                THEN Finish(c, [kind |-> "Err", what |-> "Rejected",
                                phase |-> c.phase, offset |-> c.offset,
                                status |-> a.status])
                ELSE LET next == r.payload[2] + 256 * r.payload[3]
                                     + 65536 * r.payload[4]
                         nx == IF c.phase # "data" THEN OtaAdvance(c)
                               ELSE IF next < c.total
                               THEN [c EXCEPT !.offset = next]
                               ELSE [c EXCEPT !.offset = next,
                                              !.phase = "end"]
                     IN  /\ cur' = nx
                         /\ pc' = IF nx.done THEN "idle" ELSE "ota_send"
                         /\ ret' = Unit

\* receive_frame returns r to its caller c, with n requests unresolved
\* before it: send_command returns r; a loop of receive_frame calls keeps
\* the Frame and goes round, or stops on a fault; send_and_wait_ack reads
\* the reply and ota_flash stops or moves on
Return(c, r, n) ==
    /\ recvRet' = r
    /\ outstanding' = IF n > 0 THEN n - 1 ELSE 0
    /\ lastRead' = "none"
    /\ IF c.op = "send_command"
       THEN Finish(c, r)
       ELSE IF c.op = "receive_loop"
       THEN IF r.kind = "Frame"
            THEN /\ cur' = [c EXCEPT !.got = Append(@, r)]
                 /\ pc' = "idle"
                 /\ ret' = r
            ELSE Finish(c, r)
       ELSE LET a == wait_ack(r)
            IN  IF a.kind # "Ack"
                THEN Finish(c, a)
                ELSE IF a.status # OTA_STATUS_OK
                THEN Finish(c, [kind |-> "Err", what |-> "Rejected",
                                phase |-> c.phase, offset |-> c.offset,
                                status |-> a.status])
                ELSE LET nx == OtaAdvance(c)
                     IN  /\ cur' = nx
                         /\ pc' = IF nx.done THEN "idle" ELSE "ota_send"
                         /\ ret' = Unit

\* send_frame returned e.res and the caller returns it without a receive;
\* a frame that went out with an Ok result stays unresolved
ReturnSend(c, e) ==
    /\ Finish(c, e.res)
    /\ outstanding' =
           outstanding + (IF e.wrote /\ e.res = Unit THEN 1 ELSE 0)
    /\ lastRead' = "none"
    /\ UNCHANGED <<recvRet, expired, rxTimeout, decoder, last, lastByte,
                   nresults>>

\* receive_frame(timeout_ms) called by c, up to its first read
BeginReceive(c, timeout_ms, st) ==
    /\ ResetDecoder
    /\ expired' = FALSE
    /\ rxTimeout' = timeout_ms
    /\ IF st = "fail"
       THEN Return([c EXCEPT !.recon = 0], Err("SetTimeoutFailed"),
                   outstanding + 1)
       ELSE /\ pc' = "recv"
            /\ cur' = [c EXCEPT !.recon = 0]
            /\ outstanding' = outstanding + 1
            /\ lastRead' = "none"
            /\ UNCHANGED <<recvRet, ret>>

\* transport.send_command(c.msg_type, c.payload), up to the first read of
\* receive_frame
CallSendCommand(c, w, rc, st) ==
    /\ prog = "commands"
    /\ pc = "idle"
    /\ ncmds < MaxCmds
    /\ LET e == send_frame(c.msg_type, c.payload, w, rc)
           go == send_command_then(e.res) = "receive"
           call == [op |-> "send_command", sendRes |-> e.res,
                    len |-> Len(c.payload), w0 |-> Len(written),
                    writes |-> IF e.called THEN 1 ELSE 0,
                    recvs |-> IF go THEN 1 ELSE 0, recon |-> 0,
                    done |-> FALSE]
       IN  /\ ApplySend(c.msg_type, c.payload, e)
           /\ ncmds' = ncmds + 1
           /\ IF go
              THEN BeginReceive(call, DEFAULT_TIMEOUT_MS(backend), st)
              ELSE ReturnSend(call, e)
    /\ UNCHANGED <<idleVars, rxBytes, answered, noiseSent>>

\* ota_flash(transport, path, version) up to its first send_and_wait_ack
OtaFlash(n, version, file) ==
    /\ prog = "ota"
    /\ pc = "idle"
    /\ ncmds = 0
    /\ ncmds' = 1
    /\ LET call == [op |-> "ota_flash", phase |-> "begin", offset |-> 0,
                    total |-> n, version |-> version, recon |-> 0,
                    done |-> FALSE]
       IN  CASE file = "open_err" -> Finish(call, Err("CannotOpenFile"))
             [] file = "read_err" -> Finish(call, Err("CannotReadFile"))
             [] file = "ok" /\ n = 0 -> Finish(call, Err("FirmwareEmpty"))
             [] OTHER -> /\ cur' = call
                         /\ pc' = "ota_send"
                         /\ ret' = Unit
    /\ UNCHANGED <<idleVars, mediumVars, decVars, recvRet, expired,
                   rxTimeout, lastRead, histVars>>

\* send_and_wait_ack for the frame at ota_flash's position, up to the first
\* read of receive_frame
OtaSend(w, rc, st) ==
    /\ pc = "ota_send"
    /\ LET m == OtaMessage(cur)
           e == send_frame(m.msg_type, m.payload, w, rc)
       IN  /\ ApplySend(m.msg_type, m.payload, e)
           /\ IF send_and_wait_ack_then(e.res) = "receive"
              THEN BeginReceive(cur, m.timeout_ms, st)
              ELSE ReturnSend(cur, e)
    /\ UNCHANGED <<idleVars, rxBytes, answered, noiseSent, ncmds>>

\* a receive loop that starts its wait again when the timeout has elapsed
RecvTimeout_Retry ==
    /\ pc = "recv"
    /\ expired
    /\ expired' = FALSE
    /\ UNCHANGED <<idleVars, mediumVars, decVars, pc, cur, ret, recvRet,
                   rxTimeout, lastRead, ncmds, histVars>>

\* if start.elapsed() > timeout (BLE: if remaining.is_zero()): bail
RecvTimeout ==
    /\ pc = "recv"
    /\ expired
    /\ Return(cur, Err("Timeout"), outstanding)
    /\ UNCHANGED <<idleVars, mediumVars, decoder, last, lastByte, nresults,
                   expired, rxTimeout, ncmds, written, reconnects,
                   stackOps>>

\* the receive loop goes round again, after the read outcome ev
Continue(ev) ==
    /\ lastRead' = ev
    /\ UNCHANGED <<pc, cur, ret, recvRet, outstanding>>

\* a read that takes the byte after the result byte as well
RecvByte_ReadsPast ==
    /\ pc = "recv"
    /\ backend \in {"serial", "tcp"}
    /\ ~expired
    /\ rxBytes # <<>>
    /\ Feed(Head(rxBytes))
    /\ rxBytes' = IF last' # None /\ Len(rxBytes) >= 2
                  THEN Tail(Tail(rxBytes))
                  ELSE Tail(rxBytes)
    /\ IF last' # None
       THEN Return(cur, map_err(last'), outstanding)
       ELSE Continue("byte")
    /\ UNCHANGED <<idleVars, link, queue, senderAlive, answered, noiseSent,
                   expired, rxTimeout, ncmds, written, reconnects,
                   stackOps>>

\* serial/TCP: read returned Ok(1); the byte goes to the decoder
RecvByte ==
    /\ pc = "recv"
    /\ backend \in {"serial", "tcp"}
    /\ ~expired
    /\ rxBytes # <<>>
    /\ Feed(Head(rxBytes))
    /\ rxBytes' = Tail(rxBytes)
    /\ IF last' # None
       THEN Return(cur, map_err(last'), outstanding)
       ELSE Continue("byte")
    /\ UNCHANGED <<idleVars, link, queue, senderAlive, answered, noiseSent,
                   expired, rxTimeout, ncmds, written, reconnects,
                   stackOps>>

\* serial/TCP: what a read that returns no byte may answer
StreamReadOutcomes == {"zero", "timedout", "wouldblock", "error"}

\* a read loop that goes round after Ok(0) on TCP as well
RecvNoByte_ZeroRetries(ev) ==
    /\ pc = "recv"
    /\ backend \in {"serial", "tcp"}
    /\ ~expired
    /\ rxBytes = <<>>
    /\ ev = "wouldblock" => backend = "tcp"
    /\ ev = "error" => link = "down"
    /\ (ev = "zero" /\ backend = "tcp") => link = "down"
    /\ IF ev = "error"
       THEN Return(cur, Err("ReadFailed"), outstanding)
       ELSE Continue(ev)
    /\ UNCHANGED <<idleVars, mediumVars, decoder, last, lastByte, nresults,
                   expired, rxTimeout, ncmds, written, reconnects,
                   stackOps>>

\* serial/TCP: read returned without a byte
RecvNoByte(ev) ==
    /\ pc = "recv"
    /\ backend \in {"serial", "tcp"}
    /\ ~expired
    /\ rxBytes = <<>>
    /\ ev = "wouldblock" => backend = "tcp"
    /\ ev = "error" => link = "down"
    /\ (ev = "zero" /\ backend = "tcp") => link = "down"
    /\ IF ev = "error"
       THEN Return(cur, Err("ReadFailed"), outstanding)
       ELSE IF ev = "zero" /\ backend = "tcp"
       THEN Return(cur, Err("ConnectionClosed"), outstanding)
       ELSE Continue(ev)
    /\ UNCHANGED <<idleVars, mediumVars, decoder, last, lastByte, nresults,
                   expired, rxTimeout, ncmds, written, reconnects,
                   stackOps>>

\* a BLE receive loop that starts a new frame with every notification
BleRecvData_PerPacket ==
    /\ pc = "recv"
    /\ backend = "ble"
    /\ ~expired
    /\ queue # <<>>
    /\ LET data == Head(queue)
           s == FeedAll(reset(decoder), data, 1)
       IN  /\ decoder' = s.dec
           /\ last' = s.res
           /\ lastByte' = IF s.used = 0 THEN lastByte ELSE data[s.used]
           /\ nresults' = nresults + (IF s.res = None THEN 0 ELSE 1)
           /\ queue' = Tail(queue)
           /\ IF s.res # None
              THEN Return(cur, map_err(s.res), outstanding)
              ELSE Continue("data")
    /\ UNCHANGED <<idleVars, link, rxBytes, senderAlive, answered, noiseSent,
                   expired, rxTimeout, ncmds, written, reconnects,
                   stackOps>>

\* BLE: recv_timeout returned Ok(data); its bytes go to the decoder until
\* one gives a result
BleRecvData ==
    /\ pc = "recv"
    /\ backend = "ble"
    /\ ~expired
    /\ queue # <<>>
    /\ LET data == Head(queue)
           s == FeedAll(decoder, data, 1)
       IN  /\ decoder' = s.dec
           /\ last' = s.res
           /\ lastByte' = IF s.used = 0 THEN lastByte ELSE data[s.used]
           /\ nresults' = nresults + (IF s.res = None THEN 0 ELSE 1)
           /\ queue' = Tail(queue)
           /\ IF s.res # None
              THEN Return(cur, map_err(s.res), outstanding)
              ELSE Continue("data")
    /\ UNCHANGED <<idleVars, link, rxBytes, senderAlive, answered, noiseSent,
                   expired, rxTimeout, ncmds, written, reconnects,
                   stackOps>>

\* BLE: recv_timeout returned Err(Timeout)
BleRecvWaitTimeout ==
    /\ pc = "recv"
    /\ backend = "ble"
    /\ ~expired
    /\ queue = <<>>
    /\ senderAlive
    /\ Return(cur, Err("Timeout"), outstanding)
    /\ expired' = TRUE
    /\ UNCHANGED <<idleVars, mediumVars, decoder, last, lastByte, nresults,
                   rxTimeout, ncmds, written, reconnects,
                   stackOps>>

\* a receive_frame that starts its decoder afresh after a successful
\* reconnect
BleRecvDisconnected_Resets(rc) ==
    /\ pc = "recv"
    /\ backend = "ble"
    /\ ~expired
    /\ queue = <<>>
    /\ ~senderAlive
    /\ IF auto_reconnect
       THEN LET rcn == reconnect(rc)
                c1 == [cur EXCEPT !.recon = @ + 1]
            IN  /\ reconnects' = reconnects + 1
                /\ stackOps' = rcn.ops
                /\ link' = rcn.link
                /\ senderAlive' = IF rcn.replaced THEN TRUE ELSE senderAlive
                /\ queue' = IF rcn.replaced THEN <<>> ELSE queue
                /\ decoder' = IF rcn.res = Unit THEN reset(decoder)
                              ELSE decoder
                /\ IF rcn.res # Unit
                   THEN Return(c1, rcn.res, outstanding)
                   ELSE /\ lastRead' = "reconnected"
                        /\ cur' = c1
                        /\ UNCHANGED <<pc, ret, recvRet, outstanding>>
       ELSE /\ Return(cur, Err("ConnectionLost"), outstanding)
            /\ decoder' = decoder
            /\ UNCHANGED <<reconnects, stackOps, link, senderAlive, queue>>
    /\ UNCHANGED <<idleVars, rxBytes, answered, noiseSent, last,
                   lastByte, nresults, expired, rxTimeout, ncmds, written>>

\* BLE: recv_timeout returned Err(Disconnected)
BleRecvDisconnected(rc) ==
    /\ pc = "recv"
    /\ backend = "ble"
    /\ ~expired
    /\ queue = <<>>
    /\ ~senderAlive
    /\ IF auto_reconnect
       THEN LET rcn == reconnect(rc)
                c1 == [cur EXCEPT !.recon = @ + 1]
            IN  /\ reconnects' = reconnects + 1
                /\ stackOps' = rcn.ops
                /\ link' = rcn.link
                /\ senderAlive' = IF rcn.replaced THEN TRUE ELSE senderAlive
                /\ queue' = IF rcn.replaced THEN <<>> ELSE queue
                /\ IF rcn.res # Unit
                   THEN Return(c1, rcn.res, outstanding)
                   ELSE /\ lastRead' = "reconnected"
                        /\ cur' = c1
                        /\ UNCHANGED <<pc, ret, recvRet, outstanding>>
       ELSE /\ Return(cur, Err("ConnectionLost"), outstanding)
            /\ UNCHANGED <<reconnects, stackOps, link, senderAlive, queue>>
    /\ UNCHANGED <<idleVars, rxBytes, answered, noiseSent, decoder, last,
                   lastByte, nresults, expired, rxTimeout, ncmds, written>>

\* time passes: the running receive_frame's timeout elapses
Tick ==
    /\ pc = "recv"
    /\ ~expired
    /\ expired' = TRUE
    /\ UNCHANGED <<idleVars, mediumVars, decVars, pc, cur, ret, recvRet,
                   rxTimeout, lastRead, ncmds, histVars>>

\* the medium takes bytes from the device
Deliver(b, parts) ==
    IF backend = "ble"
    THEN /\ senderAlive
         /\ Len(queue) + Len(parts) <= QUEUE_CAPACITY
         /\ queue' = queue \o parts
         /\ UNCHANGED rxBytes
    ELSE /\ rxBytes' = rxBytes \o b
         /\ UNCHANGED queue

\* the device answers the oldest unanswered request
DevReply ==
    /\ link = "up"
    /\ answered < Len(written)
    /\ answered' = answered + 1
    /\ \E b \in DeviceOutputs(written[answered + 1]) :
          \E parts \in Splits(b) : Deliver(b, parts)
    /\ UNCHANGED <<idleVars, decVars, link, senderAlive, noiseSent, callVars,
                   histVars>>

\* the device emits a stray byte
DevNoise(b) ==
    /\ link = "up"
    /\ noiseSent < MaxChanNoise
    /\ noiseSent' = noiseSent + 1
    /\ Deliver(<<b>>, <<<<b>>>>)
    /\ UNCHANGED <<idleVars, decVars, link, senderAlive, answered, callVars,
                   histVars>>

\* the link drops: the port goes away, the peer closes, or the BLE
\* connection is lost and the forwarding task ends
LinkDrop ==
    /\ link = "up"
    /\ reconnects < MaxReconnects
    /\ link' = "down"
    /\ senderAlive' = FALSE
    /\ UNCHANGED <<idleVars, decVars, rxBytes, queue, answered, noiseSent,
                   callVars, histVars>>

NextChan ==
    \/ \E c \in Commands, w \in WriteOutcomes(backend),
          rc \in SendReconnectOutcomes, st \in SetTimeoutOutcomes :
          CallSendCommand(c, w, rc, st)
    \/ \E f \in FlashInputs, file \in FileOutcomes :
          OtaFlash(f.n, f.version, file)
    \/ \E w \in WriteOutcomes(backend), rc \in SendReconnectOutcomes,
          st \in SetTimeoutOutcomes : OtaSend(w, rc, st)
    \/ RecvTimeout
    \/ RecvByte
    \/ \E ev \in StreamReadOutcomes : RecvNoByte(ev)
    \/ BleRecvData
    \/ BleRecvWaitTimeout
    \/ \E rc \in ReconnectOutcomes : BleRecvDisconnected(rc)
    \/ Tick
    \/ DevReply
    \/ DevNoise(START_BYTE_0)
    \/ LinkDrop

SpecChan == InitChan /\ [][NextChan]_vars

--------------------------------------------------------------------------
(* Stream scenario: the device sends a run of well-formed frames and the   *)
(* caller takes them with successive receive_frame calls, as trace_dump's  *)
(* collection loop does. The link stays up and no timeout elapses. On BLE  *)
(* the bytes on the air are cut into notifications of any lengths.         *)

\* transport.receive_frame(5000) in trace_dump
TRACE_RECV_TIMEOUT_MS == 5000

StreamFrames ==
    <<OkFrame(64, <<>>), OkFrame(65, <<7>>), OkFrame(66, <<>>)>>

InitOrder ==
    /\ backend \in Backends
    /\ auto_reconnect = FALSE
    /\ prog = "receive"
    /\ link = "up" /\ rxBytes = <<>> /\ queue = <<>>
    /\ senderAlive = (backend = "ble") /\ answered = 0 /\ noiseSent = 0
    /\ pc = "idle" /\ cur = NoCall /\ ret = Unit /\ recvRet = Unit
    /\ expired = FALSE /\ rxTimeout = 0 /\ lastRead = "none" /\ ncmds = 0
    /\ written = <<>> /\ outstanding = 0 /\ reconnects = 0
    /\ stackOps = <<>>
    /\ input = [msg_type |-> 0, payload |-> <<>>]
    /\ enc = NotCalled /\ wire = <<>> /\ pos = 0 /\ corrupted = 0
    /\ DecInit

\* the next transport.receive_frame(5000) of the loop, up to its first read
ReceiveNext ==
    /\ prog = "receive"
    /\ pc = "idle"
    /\ IF cur = NoCall THEN TRUE ELSE ~cur.done
    /\ ResetDecoder
    /\ expired' = FALSE
    /\ rxTimeout' = TRACE_RECV_TIMEOUT_MS
    /\ lastRead' = "none"
    /\ pc' = "recv"
    /\ cur' = IF cur = NoCall
              THEN [op |-> "receive_loop", got |-> <<>>, recon |-> 0,
                    done |-> FALSE]
              ELSE [cur EXCEPT !.recon = 0]
    /\ ncmds' = ncmds + 1
    /\ UNCHANGED <<idleVars, mediumVars, ret, recvRet, histVars>>

\* the device puts its next frame on the medium
DevSend ==
    /\ prog = "receive"
    /\ answered < Len(StreamFrames)
    /\ answered' = answered + 1
    /\ LET f == StreamFrames[answered + 1]
       IN  rxBytes' = rxBytes \o encode_frame(f.msg_type, f.payload).bytes
    /\ UNCHANGED <<idleVars, decVars, link, queue, senderAlive, noiseSent,
                   callVars, histVars>>

\* BLE: the next k bytes on the air arrive as one notification, which the
\* forwarding task puts into the channel
Notify(k) ==
    /\ prog = "receive"
    /\ backend = "ble"
    /\ senderAlive
    /\ k <= Len(rxBytes)
    /\ Len(queue) < MaxQueued
    /\ Len(queue) < QUEUE_CAPACITY
    /\ queue' = Append(queue, SubSeq(rxBytes, 1, k))
    /\ rxBytes' = SubSeq(rxBytes, k + 1, Len(rxBytes))
    /\ UNCHANGED <<idleVars, decVars, link, senderAlive, answered, noiseSent,
                   callVars, histVars>>

NextOrder ==
    \/ ReceiveNext
    \/ RecvByte
    \/ BleRecvData
    \/ DevSend
    \/ \E k \in 1..MaxNotifyLen : Notify(k)

SpecOrder == InitOrder /\ [][NextOrder]_vars

--------------------------------------------------------------------------
(* Properties of the codec scenario *)

EncodedOk == enc.kind = "Bytes"
\* since new()/reset() the decoder was fed the noise prefix and then the
\* first pos bytes of the frame, nothing else
FromFresh == clean
Original == OkFrame(input.msg_type, input.payload)

\* C1: round trip. The bytes of encode_frame(msg_type, payload), fed one at
\* a time to a fresh or reset decoder, give no result before the last byte
\* and on the last byte the Frame with the original msg_type and payload.
C1_RoundTrip ==
    (EncodedOk /\ FromFresh /\ prefixLen = 0 /\ corrupted = 0) =>
        IF pos < Len(wire)
        THEN nresults = 0 /\ last = None
        ELSE nresults = 1 /\ last = Original

C1_Witness ==
    /\ EncodedOk /\ FromFresh /\ prefixLen = 0 /\ corrupted = 0
    /\ pos = Len(wire)
    /\ Len(input.payload) = 1024
    /\ last.kind = "Frame"

\* C2: noise resilience. A prefix of bytes other than 0xAA gives no result
\* and leaves a reset decoder in WaitStart0; the encoded frame that follows
\* is then decoded to exactly the frame that was encoded.
C2_NoiseResilience ==
    (FromFresh /\ ~prefixMarker /\ corrupted = 0) =>
        /\ pos = 0 => (decoder.state = "WaitStart0" /\ nresults = 0
                       /\ last = None)
        /\ (EncodedOk /\ pos < Len(wire)) => (nresults = 0 /\ last = None)
        /\ (EncodedOk /\ pos = Len(wire)) =>
               (nresults = 1 /\ last = Original)

C2_Witness ==
    /\ EncodedOk /\ FromFresh /\ ~prefixMarker /\ corrupted = 0
    /\ prefixLen = MaxNoise
    /\ pos = Len(wire)
    /\ last = Original

\* C3: checksum detection. With one of the four CRC bytes of an encoded
\* frame replaced by a different value, decoding gives no result before the
\* last byte, CrcMismatch on the last byte, and never a Frame.
C3_ChecksumDetection ==
    (EncodedOk /\ FromFresh /\ ~prefixMarker /\ corrupted # 0) =>
        /\ last.kind # "Frame"
        /\ pos < Len(wire) => (nresults = 0 /\ last = None)
        /\ pos = Len(wire) =>
               /\ nresults = 1
               /\ last.kind = "CrcMismatch"
               /\ last.expected =
                      U32FromLeBytes(SubSeq(enc.bytes, Len(wire) - 3, Len(wire)))
               /\ last.actual =
                      U32FromLeBytes(SubSeq(wire, Len(wire) - 3, Len(wire)))

C3_Witness ==
    /\ EncodedOk /\ FromFresh /\ ~prefixMarker
    /\ corrupted = Len(wire) - 3
    /\ pos = Len(wire)
    /\ last.kind = "CrcMismatch"

\* C4: encode_frame fails with PayloadTooLarge, producing no bytes, when the
\* payload is longer than 1024 bytes, and never fails otherwise.
C4_EncodeSizeLimit ==
    enc # NotCalled =>
        IF Len(input.payload) > 1024
        THEN enc = PayloadTooLarge(Len(input.payload)) /\ wire = <<>>
        ELSE enc.kind = "Bytes" /\ Len(wire) > 0

C4_Witness ==
    /\ enc.kind = "PayloadTooLarge"
    /\ Len(input.payload) = 1025
    /\ wire = <<>>

\* CRC-32 of a byte string by its definition, one bit at a time: the
\* register starts at 0xFFFFFFFF, each byte is xored into its low 8 bits and
\* shifted out through the reflected polynomial 0xEDB88320, and the result
\* is complemented.
RECURSIVE RefCrcBits(_, _)
RefCrcBits(c, k) ==
    IF k = 0 THEN c
    ELSE RefCrcBits(IF c.lo % 2 = 1
                    THEN U32(BitXor16(c.hi \div 2, 60856),
                             BitXor16((c.lo \div 2) + (c.hi % 2) * 32768, 33568))
                    ELSE U32(c.hi \div 2, (c.lo \div 2) + (c.hi % 2) * 32768),
                    k - 1)

RECURSIVE RefCrcBytes(_, _, _, _)
RefCrcBytes(c, s, lo, hi) ==
    IF lo > hi THEN c
    ELSE IF lo = hi
    THEN RefCrcBits(U32(c.hi, BitXor16(c.lo, s[lo])), 8)
    ELSE LET mid == (lo + hi) \div 2
             left == RefCrcBytes(c, s, lo, mid)
         IN  IF left.lo >= 0 THEN RefCrcBytes(left, s, mid + 1, hi) ELSE left

RefCrc32(s) ==
    LET c == RefCrcBytes(U32(65535, 65535), s, 1, Len(s))
    IN  U32(65535 - c.hi, 65535 - c.lo)

\* the layout the claim gives for the frame of (t, p)
FrameLayout(b, t, p) ==
    LET n == Len(p)
        crc == RefCrc32(<<t>> \o p)
    IN  /\ Len(b) = 9 + n
        /\ b[1] = 170
        /\ b[2] = 85
        /\ b[3] \in 0..255 /\ b[4] \in 0..255
        /\ b[3] + 256 * b[4] = 1 + n
        /\ b[5] = t
        /\ SubSeq(b, 6, 5 + n) = p
        /\ b[6 + n] = crc.lo % 256
        /\ b[7 + n] = crc.lo \div 256
        /\ b[8 + n] = crc.hi % 256
        /\ b[9 + n] = crc.hi \div 256

\* C6: for a payload of n <= 1024 bytes encode_frame returns 9 + n bytes:
\* 0xAA, 0x55, 1 + n as 16-bit little-endian, msg_type, the payload, and
\* the little-endian CRC-32 of msg_type followed by the payload. The output
\* is this function of the input, hence deterministic.
C6_EncodeLayout ==
    [][(enc = NotCalled /\ enc' # NotCalled /\ Len(input.payload) <= 1024) =>
          /\ enc'.kind = "Bytes"
          /\ FrameLayout(enc'.bytes, input.msg_type, input.payload)]_vars

C6_Witness ==
    /\ EncodedOk
    /\ Len(input.payload) = 1024
    /\ Len(enc.bytes) = 1033

--------------------------------------------------------------------------
(* Properties of the decoder scenario *)

\* C5: in WaitLenHigh (both start markers and the low length byte seen) the
\* byte b completes the length len = low + 256 * b. If len is 0 or above
\* 1025 that very call returns InvalidLength(len) and the decoder is in
\* Error; otherwise the call returns nothing and the decoder is in WaitType.
C5_LengthCheck ==
    [][(decoder.state = "WaitLenHigh" /\ prefixLen' = prefixLen + 1) =>
          LET len == decoder.length + 256 * lastByte'
          IN  IF len = 0 \/ len > 1025
              THEN /\ last' = InvalidLength(len)
                   /\ decoder'.state = "Error"
                   /\ nresults' = nresults + 1
              ELSE /\ last' = None
                   /\ decoder'.state = "WaitType"
                   /\ decoder'.length = len
                   /\ nresults' = nresults]_vars

C5_Witness ==
    /\ decoder.state = "Error"
    /\ last = InvalidLength(1026)
    /\ prefixLen = 4

--------------------------------------------------------------------------
(* Properties of the channel scenario *)

IsVerifiedFrame(r, d) ==
    /\ r.kind = "Frame"
    /\ U32FromLeBytes(d.crc_bytes) = RefCrc32(<<r.msg_type>> \o r.payload)

IsTimeoutFault(r) == r = Err("Timeout")

IsDecodeFault(r) ==
    /\ r.kind = "Err"
    /\ r.what = "Decode"
    /\ r.cause.kind \in {"CrcMismatch", "InvalidLength"}

\* the disconnect and read faults of backend b
LinkFaults(b) ==
    CASE b = "serial" -> {"ReadFailed"}
      [] b = "tcp" -> {"ReadFailed", "ConnectionClosed", "SetTimeoutFailed"}
      [] b = "ble" -> {"ConnectionLost", "ReconnectFailed",
                       "ResubscribeFailed", "ListenerFailed"}

IsLinkFault(r) ==
    /\ r.kind = "Err"
    /\ r.what \in LinkFaults(backend)

ExactlyOneOutcome(r, d) ==
    LET o == <<IsVerifiedFrame(r, d), IsTimeoutFault(r), IsDecodeFault(r),
               IsLinkFault(r)>>
    IN  Cardinality({i \in 1..4 : o[i]}) = 1

\* C7: on serial, TCP and BLE alike, what a receive_frame call returns is
\* exactly one of: a Frame whose received CRC equals the CRC-32 of its type
\* and payload, a timeout fault, a decode fault (checksum mismatch or
\* invalid length), or a disconnect/read fault of the backend. A Frame with
\* a CRC that does not match is never returned.
C7_ReceiveOutcomes ==
    [][((pc = "recv" /\ pc' # "recv") \/ recvRet' # recvRet) =>
          ExactlyOneOutcome(recvRet', decoder')]_vars

C7_Witness ==
    /\ cur.op = "send_command"
    /\ cur.done
    /\ IsDecodeFault(recvRet)
    /\ recvRet.cause.kind = "CrcMismatch"
    /\ decoder.state = "Complete"

\* C8: a send_command call makes one send_frame and writes at most one
\* frame. If the send succeeded it makes exactly one receive_frame, with
\* timeout 1000 ms on serial, 2000 ms on TCP and 5000 ms on BLE, and returns
\* what that receive_frame returned. If the send failed it makes no
\* receive_frame and returns the send's fault.
C8_SendCommand ==
    cur.op = "send_command" =>
        /\ cur.writes <= 1
        /\ Len(written) - cur.w0 <= 1
        /\ IF cur.sendRes = Unit
           THEN /\ cur.writes = 1
                /\ Len(written) = cur.w0 + 1
                /\ cur.recvs = 1
                /\ rxTimeout = (CASE backend = "serial" -> 1000
                                  [] backend = "tcp" -> 2000
                                  [] backend = "ble" -> 5000)
                /\ IF cur.done
                   THEN pc = "idle" /\ ret = recvRet
                   ELSE pc = "recv"
           ELSE /\ cur.recvs = 0
                /\ cur.done
                /\ pc = "idle"
                /\ ret = cur.sendRes

C8_Witness ==
    /\ cur.op = "send_command"
    /\ cur.done
    /\ cur.sendRes = Unit
    /\ backend = "tcp"
    /\ rxTimeout = 2000
    /\ ret.kind = "Frame"
    /\ ncmds = 2

\* C9: max_ota_chunk_size is 1016 on serial and TCP and 400 on BLE, and on
\* every backend the 6-byte Data header plus a chunk of that size is at
\* most the 1024-byte payload ceiling.
C9_MaxChunkSize ==
    /\ max_ota_chunk_size(backend) = (IF backend = "ble" THEN 400 ELSE 1016)
    /\ Len(serialize_ota_data(0, <<>>)) = 6
    /\ 6 + max_ota_chunk_size(backend) <= 1024
    /\ MAX_PAYLOAD_SIZE = 1024

C9_Witness ==
    /\ backend = "ble"
    /\ max_ota_chunk_size(backend) = 400
    /\ prog = "ota"
    /\ \E i \in 1..Len(written) : written[i].msg_type = OTA_DATA

\* C10: at most one request is outstanding at any time, in an ota_flash and
\* in a sequence of send_command calls: a frame is written only when no
\* earlier frame is unresolved, and never while a receive_frame is running.
C10_HalfDuplex ==
    [][/\ outstanding' <= 1
       /\ written' # written => (outstanding = 0 /\ pc # "recv")]_vars

C10_Witness ==
    /\ prog = "ota"
    /\ Len(written) = 3
    /\ written[3].msg_type = OTA_DATA
    /\ outstanding = 1
    /\ pc = "recv"

--------------------------------------------------------------------------
(* Properties of the stream scenario *)

IsPrefix(a, b) == Len(a) <= Len(b) /\ a = SubSeq(b, 1, Len(a))

\* every byte the device sent has reached the decoder and the caller waits
\* for more
StreamDrained ==
    /\ answered = Len(StreamFrames)
    /\ rxBytes = <<>>
    /\ queue = <<>>
    /\ cur # NoCall

\* C11: the frames returned by successive receive_frame calls are, in
\* order, the frames the device sent: what was returned so far is a prefix
\* of what was sent, no call ends in a fault, and once every byte sent has
\* been taken every frame sent has been returned.
C11_FrameOrder ==
    cur # NoCall =>
        /\ IsPrefix(cur.got, StreamFrames)
        /\ ~cur.done
        /\ StreamDrained => cur.got = StreamFrames

\* on BLE, one frame was returned and a later one was lost
C11_Lost ==
    /\ backend = "ble"
    /\ StreamDrained
    /\ pc = "recv"
    /\ cur.got = <<StreamFrames[1], StreamFrames[3]>>

--------------------------------------------------------------------------
(* Acknowledged transfer: ota_flash of a 2040-byte image over a channel whose
   max_ota_chunk_size() is 1016, with a device that answers every Begin,
   Data and End with an Ack of status Ok; no fault, no timeout, no drop *)

InitHappy ==
    /\ backend \in {b \in Backends :
                       max_ota_chunk_size(b) = OTA_CHUNK_SIZE_DEFAULT}
    /\ auto_reconnect = FALSE
    /\ prog = "ota"
    /\ link = "up" /\ rxBytes = <<>> /\ queue = <<>>
    /\ senderAlive = FALSE /\ answered = 0 /\ noiseSent = 0
    /\ pc = "idle" /\ cur = NoCall /\ ret = Unit /\ recvRet = Unit
    /\ expired = FALSE /\ rxTimeout = 0 /\ lastRead = "none" /\ ncmds = 0
    /\ written = <<>> /\ outstanding = 0 /\ reconnects = 0
    /\ stackOps = <<>>
    /\ input = [msg_type |-> 0, payload |-> <<>>]
    /\ enc = NotCalled /\ wire = <<>> /\ pos = 0 /\ corrupted = 0
    /\ DecInit

\* ota_flash(transport, path, None) on a readable file of 2040 bytes
OtaFlashHappy == OtaFlash(2040, VERSION_UNKNOWN, "ok")

\* send_and_wait_ack whose write and set_read_timeout succeed
OtaSendHappy == OtaSend("ok", "ok", "ok")

\* the device acknowledges the oldest unanswered frame with status Ok; the
\* next_offset it reports is any of these
AckOffsets == {0, OTA_CHUNK_SIZE}
DevAck ==
    /\ answered < Len(written)
    /\ answered' = answered + 1
    /\ \E no \in AckOffsets :
          rxBytes' = rxBytes \o
              encode_frame(OTA_ACK, <<OTA_STATUS_OK>>
                                        \o U32ToLeBytes(AsU32(no))).bytes
    /\ UNCHANGED <<idleVars, decVars, link, queue, senderAlive, noiseSent,
                   callVars, histVars>>

NextHappy ==
    \/ OtaFlashHappy
    \/ OtaSendHappy
    \/ RecvByte
    \/ DevAck

SpecHappy == InitHappy /\ [][NextHappy]_vars

--------------------------------------------------------------------------
(* Properties of ota_flash in the channel scenario *)

\* the number a 4-byte little-endian field holds (below 2^31 here)
U32Val(b) == b[1] + 256 * b[2] + 65536 * b[3] + 16777216 * b[4]

\* the fields of a written Data frame
DataOffset(f) == U32Val(SubSeq(f.payload, 1, 4))
DataLenField(f) == f.payload[5] + 256 * f.payload[6]
DataChunk(f) == SubSeq(f.payload, 7, Len(f.payload))

\* the image bytes carried by the Data frames among the first k frames of w
RECURSIVE DataBytes(_, _)
DataBytes(w, k) ==
    IF k = 0 THEN 0
    ELSE DataBytes(w, k - 1)
             + (IF w[k].msg_type = OTA_DATA THEN Len(DataChunk(w[k])) ELSE 0)

\* a reply that is an Ack with status Ok
IsAckOk(r) ==
    /\ r.kind = "Frame"
    /\ r.msg_type = 4
    /\ Len(r.payload) >= 5
    /\ r.payload[1] = 0

\* w is a prefix of Begin, Data.., End for an image of total bytes
OrderOk(w, total) ==
    \A i \in 1..Len(w) :
        /\ w[i].msg_type \in {1, 2, 3}
        /\ (i = 1) <=> (w[i].msg_type = 1)
        /\ w[i].msg_type = 2 => DataBytes(w, i - 1) < total
        /\ w[i].msg_type = 3 => (i = Len(w) /\ DataBytes(w, i - 1) = total)

\* C12: when ota_flash writes a frame, the frames written so far are a
\* prefix of Begin, Data(chunk 0), .., Data(chunk N-1), End: Begin is first
\* and sent once, a Data is sent only while image bytes remain, End only
\* when every image byte was sent, and nothing after End; every frame but
\* the Begin is written only after the previous frame was answered by an
\* Ack with status Ok.
C12_OtaOrder ==
    [][(prog = "ota" /\ written' # written) =>
          /\ Len(written') = Len(written) + 1
          /\ SubSeq(written', 1, Len(written)) = written
          /\ OrderOk(written', cur.total)
          /\ written # <<>> => (IsAckOk(recvRet) /\ outstanding = 0)]_vars

C12_Witness ==
    /\ prog = "ota"
    /\ Len(written) = 4
    /\ cur.total = Len(DataChunk(written[2])) + Len(DataChunk(written[3]))
    /\ written[4].msg_type = 3
    /\ cur.phase = "complete"

\* ota_flash of the 2040-byte image has returned
HappyDone ==
    IF cur = NoCall THEN FALSE
    ELSE cur.op = "ota_flash" /\ cur.total = 2040 /\ cur.done

\* the Data frame f carries len image bytes for offset off
IsData(f, off, len) ==
    /\ f.msg_type = 2
    /\ DataOffset(f) = off
    /\ DataLenField(f) = len
    /\ Len(DataChunk(f)) = len

\* C13 as stated: with a 2040-byte image, a channel of 1016-byte chunks and
\* a device that acknowledges everything with status Ok, the engine sends
\* one Begin, two Data chunks (offset 0 length 1016, offset 1016 length
\* 1024), one End, and succeeds.
C13_TwoChunks ==
    HappyDone =>
        /\ ret = Unit
        /\ Len(written) = 4
        /\ written[1].msg_type = 1
        /\ IsData(written[2], 0, 1016)
        /\ IsData(written[3], 1016, 1024)
        /\ written[4].msg_type = 3

\* C13: with a 2040-byte image, a channel of 1016-byte chunks and a device
\* that acknowledges everything with status Ok, the engine sends one Begin,
\* three Data chunks (offset 0 length 1016, offset 1016 length 1016, offset
\* 2032 length 8), one End, and returns Ok with all 2040 bytes sent.
C13_HappyPath ==
    HappyDone =>
        /\ ret = Unit
        /\ cur.phase = "complete"
        /\ cur.offset = 2040
        /\ Len(written) = 5
        /\ written[1].msg_type = 1
        /\ IsData(written[2], 0, 1016)
        /\ IsData(written[3], 1016, 1016)
        /\ IsData(written[4], 2032, 8)
        /\ written[5].msg_type = 3
        /\ DataBytes(written, 5) = 2040
        /\ outstanding = 0

C13_Witness ==
    /\ HappyDone
    /\ ret = Unit
    /\ Len(written) = 5
    /\ written[5].msg_type = 3
    /\ answered = 5

\* this step is the return of the receive_frame of an ota_flash in phase ph
OtaReceiveReturns(ph) ==
    /\ prog = "ota"
    /\ pc = "recv"
    /\ pc' # "recv"
    /\ cur.phase = ph

\* r is a Frame holding an Ack long enough to be read
IsAckFrame(r) ==
    /\ r.kind = "Frame"
    /\ r.msg_type = 4
    /\ Len(r.payload) >= 5

\* the ota_flash has returned
OtaDone == IF cur = NoCall THEN FALSE ELSE cur.op = "ota_flash" /\ cur.done

\* C14: when the Data chunk at offset o is answered by an Ack whose status
\* is not Ok, ota_flash returns at once with a failure that carries o and
\* the status of the Ack, and writes no further frame: no Data, no End.
C14_AbortPropagation ==
    [][/\ (OtaReceiveReturns("data") /\ IsAckFrame(recvRet')
              /\ recvRet'.payload[1] # 0) =>
             /\ cur'.done
             /\ written' = written
             /\ written[Len(written)].msg_type = 2
             /\ ret' = [kind |-> "Err", what |-> "Rejected",
                        phase |-> "data",
                        offset |-> DataOffset(written[Len(written)]),
                        status |-> OtaStatus_from_u8(recvRet'.payload[1])]
             /\ ret'.status # 0
       /\ OtaDone => (written' = written /\ ret' = ret)]_vars

C14_Witness ==
    /\ OtaDone
    /\ ret.kind = "Err"
    /\ ret.what = "Rejected"
    /\ ret.offset = 1016
    /\ ret.status = 2
    /\ Len(written) = 3

\* the Data frames among the frames written
DataIndexes == {i \in 1..Len(written) : written[i].msg_type = 2}

\* C15 as stated: every Data chunk of an ota_flash is at most the channel's
\* max_ota_chunk_size() long (400 on BLE, 1016 on serial and TCP), and
\* every chunk that does not end the image has exactly that length.
C15_ChunkAtChannelMax ==
    (prog = "ota" /\ cur # NoCall) =>
        \A i \in DataIndexes :
            /\ Len(DataChunk(written[i])) <= max_ota_chunk_size(backend)
            /\ DataBytes(written, i) < cur.total =>
                   Len(DataChunk(written[i])) = max_ota_chunk_size(backend)

\* a Data chunk of 1016 bytes written to a BLE channel
C15_BleOversize ==
    /\ prog = "ota"
    /\ backend = "ble"
    /\ \E i \in DataIndexes :
          /\ Len(DataChunk(written[i])) = OTA_CHUNK_SIZE
          /\ OTA_CHUNK_SIZE > max_ota_chunk_size(backend)

\* the 4 offset bytes of a written Data frame
OffsetField(f) == SubSeq(f.payload, 1, 4)

\* C16: the first Data frame carries offset 0 and each following one the
\* previous offset plus the previous chunk's length, so no offset is sent
\* twice; every Data frame's 2-byte length field equals the number of chunk
\* bytes after it and those bytes are the image's bytes at that offset; in
\* a successful transfer the chunks cover exactly bytes [0, total) of the
\* image.
C16_DataOffsets ==
    (prog = "ota" /\ cur # NoCall) =>
        /\ \A i \in DataIndexes :
              LET f == written[i]
                  off == DataBytes(written, i - 1)
              IN  /\ OffsetField(f) = U32ToLeBytes(AsU32(off))
                  /\ DataLenField(f) = Len(DataChunk(f))
                  /\ Len(DataChunk(f)) > 0
                  /\ off + Len(DataChunk(f)) <= cur.total
                  /\ DataChunk(f) = SubSeq(Firmware(cur.total), off + 1,
                                           off + Len(DataChunk(f)))
        /\ \A i, j \in DataIndexes :
              i # j => OffsetField(written[i]) # OffsetField(written[j])
        /\ (cur.done /\ ret = Unit) =>
              DataBytes(written, Len(written)) = cur.total

C16_Witness ==
    /\ OtaDone
    /\ ret = Unit
    /\ DataIndexes = {2, 3}
    /\ DataOffset(written[2]) = 0
    /\ DataOffset(written[3]) = 1016
    /\ DataLenField(written[3]) = 1

\* this step is an exchange of an ota_flash coming to its end: the send
\* failed, or receive_frame returned
OtaExchangeEnds ==
    /\ prog = "ota"
    /\ pc \in {"ota_send", "recv"}
    /\ pc' \notin {pc, "recv"}

\* the exchange that ends in this step was answered by an Ack with status Ok
AnsweredOk ==
    /\ pc = "recv" \/ recvRet' # recvRet
    /\ IsAckOk(recvRet')

\* C17: ota_flash returns Ok exactly when the Begin, every Data chunk and
\* the End were each answered by an Ack with status Ok.  An exchange that
\* ends in any other way (send failure, timeout, decode fault, disconnect, a
\* reply of another type, a non-Ok status, a device Abort) ends ota_flash
\* with a failure in that step; ota_flash moves on only after an Ack with
\* status Ok, and once it has returned no frame is written.
C17_NoPartialSuccess ==
    [][/\ (OtaExchangeEnds /\ ~AnsweredOk) =>
             /\ cur'.done
             /\ ret'.kind = "Err"
             /\ cur'.phase = cur.phase
             /\ cur'.offset = cur.offset
       /\ (OtaExchangeEnds /\ AnsweredOk) =>
             /\ ret' = Unit
             /\ cur'.phase # cur.phase \/ cur'.offset > cur.offset
             /\ cur'.done <=> cur.phase = "end"
             /\ cur'.done <=> cur'.phase = "complete"
       /\ OtaDone => (written' = written /\ cur' = cur /\ ret' = ret)
       /\ OtaDone' =>
             (ret' = Unit <=>
                 /\ cur'.phase = "complete"
                 /\ written'[Len(written')].msg_type = 3
                 /\ DataBytes(written', Len(written')) = cur'.total
                 /\ answered' = Len(written')
                 /\ outstanding' = 0)]_vars

C17_Witness ==
    /\ OtaDone
    /\ ret.kind = "Err"
    /\ ret.what = "UnexpectedResponse"
    /\ cur.phase = "data"
    /\ cur.offset = 1016
    /\ DataIndexes = {2, 3}

\* r is a Frame holding an Abort with a reason byte
IsAbortFrame(r) ==
    /\ r.kind = "Frame"
    /\ r.msg_type = 5
    /\ r.payload # <<>>

\* C18: when the reply to the Begin, to a Data chunk or to the End is an
\* Abort frame, ota_flash returns in that step with a failure that carries
\* the status decoded from the first byte of the Abort payload, and no
\* frame is written then or afterwards.
C18_DeviceAbort ==
    [][/\ \A ph \in {"begin", "data", "end"} :
             (OtaReceiveReturns(ph) /\ IsAbortFrame(recvRet')) =>
                 /\ cur'.done
                 /\ cur'.phase = ph
                 /\ ret' = [kind |-> "Err", what |-> "DeviceAborted",
                            status |->
                                OtaStatus_from_u8(recvRet'.payload[1])]
                 /\ Len(written') = Len(written)
       /\ (OtaDone /\ ret.kind = "Err") => Len(written') = Len(written)]_vars

C18_Witness ==
    /\ OtaDone
    /\ ret.kind = "Err"
    /\ ret.what = "DeviceAborted"
    /\ ret.status = 3
    /\ cur.phase = "end"
    /\ IsAbortFrame(recvRet)

\* this step is a send_command whose payload is longer than MAX_PAYLOAD_SIZE
SendsOversize ==
    /\ prog = "commands"
    /\ ncmds' = ncmds + 1
    /\ cur'.len > MAX_PAYLOAD_SIZE

\* this step is an ota_flash on a readable file of no bytes
FlashesEmpty ==
    /\ prog = "ota"
    /\ ncmds' = ncmds + 1
    /\ cur'.total = 0
    /\ ret' # Err("CannotOpenFile")
    /\ ret' # Err("CannotReadFile")

\* nothing is done on the medium in this step
NoMediumOperation ==
    /\ written' = written
    /\ reconnects' = reconnects
    /\ link' = link
    /\ queue' = queue
    /\ senderAlive' = senderAlive

\* C19 as stated: ota_flash on an empty image fails without writing a
\* frame, and send_frame with a payload longer than 1024 bytes fails on
\* every backend without any operation on the medium: no write, no connect
\* or reconnect.
C19_InputFaultsBeforeIO ==
    [][/\ FlashesEmpty =>
             /\ cur'.done
             /\ ret' = Err("FirmwareEmpty")
             /\ NoMediumOperation
       /\ SendsOversize =>
             /\ cur'.done
             /\ ret'.kind = "Err"
             /\ cur'.writes = 0
             /\ NoMediumOperation]_vars

\* an oversize send_command on BLE that reconnected before it failed
C19_ReconnectBeforeCheck ==
    /\ prog = "commands"
    /\ backend = "ble"
    /\ ncmds = 1
    /\ pc = "idle"
    /\ cur.len > MAX_PAYLOAD_SIZE
    /\ cur.writes = 0
    /\ reconnects = 1

--------------------------------------------------------------------------
(* BLE reconnect during receive_frame *)

\* the faults reconnect() returns
IsReconnectFault(r) ==
    /\ r.kind = "Err"
    /\ r.what \in {"ReconnectFailed", "ResubscribeFailed", "ListenerFailed"}

\* this step is a BLE receive_frame meeting Err(Disconnected): the
\* notification queue is empty and its producer is gone
MeetsDisconnect ==
    /\ backend = "ble"
    /\ pc = "recv"
    /\ ~expired
    /\ queue = <<>>
    /\ ~senderAlive
    /\ reconnects' # reconnects \/ pc' # "recv"

\* this step is the return of a BLE receive_frame that reconnected
ReturnsAfterReconnect ==
    /\ backend = "ble"
    /\ pc = "recv"
    /\ pc' # "recv"
    /\ cur'.recon >= 1

\* C20 as stated: a receive_frame during which the link dropped, with
\* auto-reconnect enabled, makes exactly one reconnect attempt and ends with
\* a recovered Frame or with the fault of the failed reconnection; with
\* auto-reconnect disabled the drop yields a disconnect fault at once and
\* no reconnect attempt.
C20_FrameOrReconnectFault ==
    [][/\ ReturnsAfterReconnect =>
             /\ cur'.recon = 1
             /\ recvRet'.kind = "Frame" \/ IsReconnectFault(recvRet')
       /\ (MeetsDisconnect /\ ~auto_reconnect) =>
             /\ recvRet' = Err("ConnectionLost")
             /\ pc' # "recv"
             /\ reconnects' = reconnects]_vars

\* C20: with auto-reconnect enabled, every time a BLE receive_frame finds
\* the notification queue's producer gone it makes exactly one reconnect
\* attempt; when that attempt fails the call ends with its fault, and when
\* it succeeds the call goes on with a new queue and ends with a Frame, a
\* timeout, a decode fault, or the fault of a later failed reconnection.
\* With auto-reconnect disabled the drop yields a disconnect fault at once
\* and no reconnect attempt is ever made.
C20_BleReconnect ==
    [][/\ (MeetsDisconnect /\ auto_reconnect) =>
             /\ reconnects' = reconnects + 1
             /\ cur'.recon = cur.recon + 1
             /\ \/ /\ pc' = "recv"
                   /\ link' = "up"
                   /\ senderAlive'
                   /\ queue' = <<>>
                \/ /\ pc' # "recv"
                   /\ IsReconnectFault(recvRet')
       /\ (pc = "recv" /\ reconnects' # reconnects) =>
             (MeetsDisconnect /\ auto_reconnect)
       /\ ReturnsAfterReconnect =>
             /\ auto_reconnect
             /\ \/ recvRet'.kind = "Frame"
                \/ IsTimeoutFault(recvRet')
                \/ IsDecodeFault(recvRet')
                \/ IsReconnectFault(recvRet')
             /\ IsReconnectFault(recvRet') <=> MeetsDisconnect
       /\ (MeetsDisconnect /\ ~auto_reconnect) =>
             /\ recvRet' = Err("ConnectionLost")
             /\ pc' # "recv"
             /\ reconnects' = reconnects
             /\ link' = link
       /\ ~auto_reconnect => reconnects' = reconnects]_vars

\* a receive_frame that reconnected once and returned the Frame that came
\* over the new connection
C20_Witness ==
    /\ backend = "ble"
    /\ auto_reconnect
    /\ pc # "recv"
    /\ IF cur = NoCall THEN FALSE ELSE cur.recon = 1
    /\ reconnects = 1
    /\ recvRet.kind = "Frame"

--------------------------------------------------------------------------
(* BLE notification queue: the task spawned by setup_notification_listener
   forwards status notifications into the bounded channel while one
   receive_frame drains it.  The i-th notification carries the single byte
   i - 1, which the decoder skips, so lastByte is the notification read
   last. *)

InitQueue ==
    /\ backend = "ble"
    /\ auto_reconnect = FALSE
    /\ prog = "receive"
    /\ link = "up" /\ rxBytes = <<>> /\ queue = <<>>
    /\ senderAlive = TRUE /\ answered = 0 /\ noiseSent = 0
    /\ pc = "idle" /\ cur = NoCall /\ ret = Unit /\ recvRet = Unit
    /\ expired = FALSE /\ rxTimeout = 0 /\ lastRead = "none" /\ ncmds = 0
    /\ written = <<>> /\ outstanding = 0 /\ reconnects = 0
    /\ stackOps = <<>>
    /\ input = [msg_type |-> 0, payload |-> <<>>]
    /\ enc = NotCalled /\ wire = <<>> /\ pos = 0 /\ corrupted = 0
    /\ DecInit

\* a forwarder that gives up the notification when the queue is full
Forward_DropWhenFull ==
    /\ senderAlive
    /\ answered < MaxNotifications
    /\ answered' = answered + 1
    /\ queue' = IF Len(queue) < QUEUE_CAPACITY
                THEN Append(queue, <<answered>>)
                ELSE queue
    /\ UNCHANGED <<idleVars, decVars, link, rxBytes, senderAlive, noiseSent,
                   callVars, histVars>>

\* the forwarding task: notification_stream.next().await, then
\* tx.send(notification.value), which waits while the queue is full
Forward ==
    /\ senderAlive
    /\ answered < MaxNotifications
    /\ Len(queue) < QUEUE_CAPACITY
    /\ answered' = answered + 1
    /\ queue' = Append(queue, <<answered>>)
    /\ UNCHANGED <<idleVars, decVars, link, rxBytes, senderAlive, noiseSent,
                   callVars, histVars>>

NextQueue ==
    \/ ReceiveNext
    \/ Forward
    \/ BleRecvData

SpecQueue == InitQueue /\ [][NextQueue]_vars

\* the notifications that carry the bytes lo to hi, in order
Notifications(lo, hi) == [i \in 1..(hi - lo + 1) |-> <<lo + i - 1>>]

\* C21: under every interleaving of the forwarding task and the caller the
\* queue never holds more than 32 notifications, and it holds exactly the
\* notifications forwarded and not yet read, in arrival order: none is
\* dropped, none is read twice, and the caller reads them first in, first
\* out.
C21_NotificationQueue ==
    /\ Len(queue) <= QUEUE_CAPACITY
    /\ lastByte + 1 + Len(queue) = answered
    /\ queue = Notifications(lastByte + 1, answered - 1)

\* the queue is full again after the caller has read some notifications
C21_Witness ==
    /\ Len(queue) = QUEUE_CAPACITY
    /\ lastByte >= 1
    /\ answered = lastByte + 1 + QUEUE_CAPACITY
    /\ pc = "recv"

--------------------------------------------------------------------------
(* Timeouts: send_command calls on a link that stays up, with a device that
   answers late or not at all and stray bytes that keep arriving.  Time
   passes and every read or queue wait returns, so the receive loop keeps
   taking steps. *)

\* send_command whose write succeeds
CallLive ==
    \E c \in Commands : CallSendCommand(c, "ok", "ok", "ok")

\* the device answers the oldest unanswered request with a well-formed frame
DevReplyGood ==
    /\ answered < Len(written)
    /\ answered' = answered + 1
    /\ LET b == DeviceBytes(ReplyTo(written[answered + 1]), "good")
       IN  Deliver(b, <<b>>)
    /\ UNCHANGED <<idleVars, decVars, link, senderAlive, noiseSent, callVars,
                   histVars>>

\* stray bytes arrive whenever the medium has room for them
StrayBytes == {START_BYTE_0, 0}
KeepNoise ==
    /\ Len(rxBytes) + Len(queue) < MaxQueued
    /\ \E b \in StrayBytes : Deliver(<<b>>, <<<<b>>>>)
    /\ UNCHANGED <<idleVars, decVars, link, senderAlive, answered, noiseSent,
                   callVars, histVars>>

NextLive ==
    \/ CallLive
    \/ RecvTimeout
    \/ RecvByte
    \/ \E ev \in StreamReadOutcomes : RecvNoByte(ev)
    \/ BleRecvData
    \/ BleRecvWaitTimeout
    \/ Tick
    \/ DevReplyGood
    \/ KeepNoise

InitLive ==
    /\ InitChan
    /\ prog = "commands"
    /\ auto_reconnect = FALSE

SpecLive ==
    /\ InitLive
    /\ [][NextLive]_vars
    /\ WF_vars(Tick)
    /\ WF_vars(RecvTimeout)

\* C22: every receive_frame call returns; once its timeout has elapsed it
\* returns a timeout fault, also while stray bytes keep arriving; the
\* timeout leaves the link, the medium and the queue as they are, and with
\* no other fault on the link every call ends with a Frame or a timeout
\* fault, so that the call after a timeout can return a Frame.
C22_TimeoutRecoverable ==
    /\ (pc = "recv") ~> (pc = "idle")
    /\ [][(pc = "recv" /\ expired /\ pc' # "recv") =>
              /\ recvRet' = Err("Timeout")
              /\ ret' = Err("Timeout")
              /\ pc' = "idle"
              /\ link' = link
              /\ rxBytes' = rxBytes
              /\ queue' = queue
              /\ senderAlive' = senderAlive]_vars
    /\ [](link = "up" /\ (recvRet = Unit \/ recvRet.kind = "Frame"
                             \/ IsTimeoutFault(recvRet)))

\* the second send_command returned a Frame after the first had timed out:
\* two requests went out, and the one answer the device gave came back in
\* the second call
C22_Witness ==
    /\ ncmds = 2
    /\ pc = "idle"
    /\ Len(written) = 2
    /\ answered = 1
    /\ recvRet.kind = "Frame"
    /\ IF cur = NoCall THEN FALSE ELSE cur.done /\ cur.recvs = 1

--------------------------------------------------------------------------
(* Properties of the decoder fed raw bytes *)

\* this step feeds one byte to the decoder (the byte is lastByte')
FeedsByte == prefixLen' = prefixLen + 1

\* C23: in WaitStart1 the byte 0x55 moves the decoder to WaitLenLow, the
\* byte 0xAA leaves it in WaitStart1, every other byte moves it back to
\* WaitStart0; feed_byte returns no result in all three cases and changes
\* nothing else in the decoder.
C23_WaitStart1 ==
    [][(decoder.state = "WaitStart1" /\ FeedsByte) =>
          /\ last' = None
          /\ nresults' = nresults
          /\ decoder' =
                [decoder EXCEPT !.state =
                    IF lastByte' = 85 THEN "WaitLenLow"
                    ELSE IF lastByte' = 170 THEN "WaitStart1"
                    ELSE "WaitStart0"]]_vars

\* 0xAA 0x55 has been fed to a fresh decoder: the 0x55 was taken in
\* WaitStart1
C23_Witness ==
    /\ prefixLen = 2
    /\ lastByte = 85
    /\ decoder.state = "WaitLenLow"
    /\ last = None

--------------------------------------------------------------------------
(* Byte streams fed to one decoder: a first frame (well formed, with a wrong
   CRC byte, or a header with an invalid length) followed at once by a
   second well-formed frame; the caller may reset the decoder at any point *)

FirstFrames == {<<32>>, <<32, 170, 85>>}
BadHeaders == {<<START_BYTE_0, START_BYTE_1, 0, 0>>,
               <<START_BYTE_0, START_BYTE_1, 2, 4>>}
SecondFrame == encode_frame(33, <<7>>).bytes

\* the bytes of the frame with type f[1] and payload Tail(f)
FrameBytes(f) == encode_frame(Head(f), Tail(f)).bytes

\* b with its last byte altered
WrongCrc(b) == [b EXCEPT ![Len(b)] = BitXor(b[Len(b)], 255)]

StreamWires ==
    {FrameBytes(f) \o SecondFrame : f \in FirstFrames}
        \cup {WrongCrc(FrameBytes(f)) \o SecondFrame : f \in FirstFrames}
        \cup {h \o SecondFrame : h \in BadHeaders}

InitStream ==
    /\ ChanNone
    /\ input = [msg_type |-> 0, payload |-> <<>>]
    /\ enc = NotCalled
    /\ wire \in StreamWires
    /\ pos = 0
    /\ corrupted = 0
    /\ DecInit

NextStream ==
    \/ FeedWire
    \/ Reset

SpecStream == InitStream /\ [][NextStream]_vars

\* this step feeds the next byte of the stream (the byte is lastByte')
FeedsWire == pos' = pos + 1

\* the byte fed in this step completes the CRC field
CompletesCrc == decoder.state = "WaitCrc" /\ decoder.crc_index = 3

\* the byte fed in this step is a length high byte that fails the range
\* check
FailsLength ==
    /\ decoder.state = "WaitLenHigh"
    /\ LET len == decoder.length + 256 * lastByte'
       IN  len = 0 \/ len > MAX_PAYLOAD_SIZE + 1

\* C24: between two resets feed_byte returns a result for at most one byte;
\* the byte that gets a result is the one that completes the CRC field or
\* the length byte that fails the range check, and every other byte gets
\* no result; after a result the decoder is in Complete or Error and every
\* further byte gets no result and leaves the decoder unchanged until
\* reset.
C24_OneResult ==
    [][FeedsWire =>
          /\ (last' # None) <=> (CompletesCrc \/ FailsLength)
          /\ last' # None => (nresults = 0 /\ nresults' = 1)
          /\ last' # None => decoder'.state \in {"Complete", "Error"}
          /\ (nresults >= 1) <=> (decoder.state \in {"Complete", "Error"})
          /\ decoder.state \in {"Complete", "Error"} =>
                 (last' = None /\ decoder' = decoder)]_vars

\* the whole stream was fed without a reset: the first frame gave the one
\* result and every byte of the second frame was ignored
C24_Witness ==
    /\ wire \in StreamWires
    /\ pos = Len(wire)
    /\ clean
    /\ nresults = 1
    /\ decoder.state = "Complete"
    /\ last = None

--------------------------------------------------------------------------
(* Decoder reset between calls: send_command calls on a link that stays up,
   with a device whose answers are well formed, have a wrong CRC, or
   announce length 0, and that may be cut short by the timeout *)

\* the device answers the oldest unanswered request
DevReplyAny ==
    /\ answered < Len(written)
    /\ answered' = answered + 1
    /\ \E how \in Hows :
          LET b == DeviceBytes(ReplyTo(written[answered + 1]), how)
          IN  \E parts \in Splits(b) : Deliver(b, parts)
    /\ UNCHANGED <<idleVars, decVars, link, senderAlive, noiseSent, callVars,
                   histVars>>

NextReset ==
    \/ CallLive
    \/ RecvTimeout
    \/ RecvByte
    \/ BleRecvData
    \/ BleRecvWaitTimeout
    \/ Tick
    \/ DevReplyAny

SpecReset == InitLive /\ [][NextReset]_vars

\* this step is a send_command that gets to receive_frame
EntersReceive ==
    /\ ncmds' = ncmds + 1
    /\ cur'.recvs = 1

\* C25: on serial, TCP and BLE, whatever state the decoder was left in by
\* the call before (in the middle of a frame after a timeout, Complete
\* after a frame or a CRC fault, Error after an invalid length), a
\* receive_frame starts with the decoder in WaitStart0 with empty buffers;
\* and a decoder that has taken no byte since then holds nothing of the
\* bytes read by earlier calls.
C25_ResetOnReceive ==
    /\ [][EntersReceive =>
              /\ decoder' = FrameDecoder_new
              /\ decoder'.state = "WaitStart0"
              /\ decoder'.payload = <<>>
              /\ last' = None]_vars
    /\ [](pc = "recv" /\ lastByte = -1 => decoder = FrameDecoder_new)

\* the second call has just started after the first returned an invalid
\* length fault, which leaves the decoder in Error: the decoder is fresh
C25_Witness ==
    /\ ncmds = 2
    /\ pc = "recv"
    /\ recvRet.kind = "Err"
    /\ recvRet.what = "Decode"
    /\ recvRet.cause.kind = "InvalidLength"
    /\ lastByte = -1
    /\ decoder.state = "WaitStart0"

--------------------------------------------------------------------------
(* One encoded frame over BLE: its bytes (wire) reach the caller cut into
   notifications of any lengths, while receive_frame drains the queue *)

SplitInputs ==
    {[msg_type |-> 32, payload |-> <<>>],
     [msg_type |-> 170, payload |-> <<85, 170>>],
     [msg_type |-> 33, payload |-> <<170, 85, 0>>]}

InitSplit ==
    /\ backend = "ble"
    /\ auto_reconnect = FALSE
    /\ prog = "receive"
    /\ input \in SplitInputs
    /\ enc = encode_frame(input.msg_type, input.payload)
    /\ wire = enc.bytes
    /\ rxBytes = wire
    /\ link = "up" /\ queue = <<>>
    /\ senderAlive = TRUE /\ answered = 0 /\ noiseSent = 0
    /\ pc = "idle" /\ cur = NoCall /\ ret = Unit /\ recvRet = Unit
    /\ expired = FALSE /\ rxTimeout = 0 /\ lastRead = "none" /\ ncmds = 0
    /\ written = <<>> /\ outstanding = 0 /\ reconnects = 0
    /\ stackOps = <<>>
    /\ pos = 0 /\ corrupted = 0
    /\ DecInit

NextSplit ==
    \/ ReceiveNext
    \/ BleRecvData
    \/ \E k \in 1..MaxNotifyLen : Notify(k)

SpecSplit == InitSplit /\ [][NextSplit]_vars

\* what feeding the bytes b one at a time to a new decoder returns
DecodeBytewise(b) == map_err(FeedAll(FrameDecoder_new, b, 1).res)

\* C26: for one encoded frame delivered over BLE, however its bytes are cut
\* into consecutive notifications, receive_frame returns nothing before
\* the last byte has been read and then returns the Frame that feeding the
\* unsplit bytes one at a time returns, which is the frame that was
\* encoded.
C26_SplitIndependence ==
    cur # NoCall =>
        /\ cur.got # <<>> <=> (rxBytes = <<>> /\ queue = <<>>)
        /\ cur.got # <<>> =>
              /\ cur.got = <<DecodeBytewise(wire)>>
              /\ cur.got = <<OkFrame(input.msg_type, input.payload)>>

\* the 12-byte frame was returned once all its bytes had been read
C26_Witness ==
    /\ Len(wire) = 12
    /\ rxBytes = <<>>
    /\ queue = <<>>
    /\ decoder.crc_index = 4
    /\ IF cur = NoCall THEN FALSE ELSE Len(cur.got) = 1
    /\ lastRead = "none"

--------------------------------------------------------------------------
(* Reads of zero bytes *)

\* this step is a read of zero bytes after which the loop goes round
RetriesAfterZero == lastRead # "zero" /\ lastRead' = "zero"

\* this step is a receive_frame returning the connection-closed fault
ReturnsClosed ==
    /\ pc = "recv"
    /\ pc' # "recv"
    /\ recvRet' = Err("ConnectionClosed")

\* C27: a read of zero bytes during receive_frame makes the serial channel
\* go round its loop again, with the call still waiting and nothing
\* returned, and is never a fault there; on the TCP channel it ends the
\* call at once with the connection-closed fault, before the timeout has
\* elapsed, and is never retried.
C27_ZeroRead ==
    [][/\ RetriesAfterZero =>
             /\ backend = "serial"
             /\ pc = "recv" /\ pc' = "recv"
             /\ ~expired'
             /\ recvRet' = recvRet /\ ret' = ret
             /\ decoder' = decoder
       /\ ReturnsClosed =>
             /\ backend = "tcp"
             /\ ~expired /\ ~expired'
             /\ rxBytes = <<>>
             /\ written' = written
       /\ (pc = "recv" /\ lastRead = "zero" /\ pc' # "recv") =>
             \/ recvRet'.kind = "Frame"
             \/ IsTimeoutFault(recvRet')
             \/ IsDecodeFault(recvRet')
             \/ IsLinkFault(recvRet')]_vars

\* a TCP receive_frame ended with the connection-closed fault before its
\* timeout
C27_Witness ==
    /\ backend = "tcp"
    /\ pc = "idle"
    /\ recvRet = Err("ConnectionClosed")
    /\ ~expired
    /\ link = "down"

--------------------------------------------------------------------------
(* BLE send_frame with the link down *)

\* this step is a call of send_frame, by send_command or by ota_flash
SendsFrame ==
    \/ prog = "commands" /\ ncmds' = ncmds + 1
    \/ prog = "ota" /\ pc = "ota_send" /\ pc' # "ota_send"

\* C28: BLE send_frame with the link down: with auto-reconnect disabled it
\* fails with the connection-lost fault, writes nothing and attempts no
\* reconnect; with auto-reconnect enabled it makes one reconnect attempt
\* first, writes a frame only if the reconnection succeeded, and if the
\* reconnection failed it fails with the reconnection fault and writes
\* nothing.
C28_SendLinkDown ==
    [][(backend = "ble" /\ link # "up" /\ SendsFrame) =>
          IF ~auto_reconnect
          THEN /\ ret' = Err("ConnectionLost")
               /\ cur'.done
               /\ written' = written
               /\ reconnects' = reconnects
               /\ link' = link
          ELSE /\ reconnects' = reconnects + 1
               /\ written' # written =>
                     (link' = "up" /\ senderAlive' /\ queue' = <<>>)
               /\ ~senderAlive' =>
                     /\ IsReconnectFault(ret')
                     /\ cur'.done
                     /\ written' = written
               /\ (senderAlive' /\ pc' # "recv") => ~IsReconnectFault(ret')
               /\ pc' = "recv" => Len(written') = Len(written) + 1]_vars

\* the first send_command found the link down, reconnected and wrote its
\* frame; its receive_frame has made no reconnect attempt
C28_Witness ==
    /\ backend = "ble"
    /\ auto_reconnect
    /\ prog = "commands"
    /\ ncmds = 1
    /\ reconnects = 1
    /\ Len(written) = 1
    /\ pc = "recv"
    /\ cur.recon = 0

--------------------------------------------------------------------------
(* the steps of a BLE reconnect *)

\* the steps of a reconnect as the design document lists them
DocumentedSteps == <<"connect", "discover", "subscribe", "replace_rx_receiver">>

IsDocumentedStep(op) == \E i \in 1..Len(DocumentedSteps) : DocumentedSteps[i] = op

\* C29 as stated: a BLE reconnect re-connects the link, re-discovers the
\* characteristic, re-subscribes to notifications and replaces the
\* notification queue, in this order and stopping at the first step that
\* fails; a receive_frame that reconnected goes on waiting on the new queue
\* when all four steps were done, and ends with the reconnection fault
\* otherwise.
C29_ReconnectSteps ==
    [][reconnects' # reconnects =>
          LET did == SelectSeq(stackOps', IsDocumentedStep)
          IN  /\ IsPrefix(did, DocumentedSteps)
              /\ (MeetsDisconnect /\ auto_reconnect) =>
                    IF did = DocumentedSteps
                    THEN /\ pc' = "recv"
                         /\ senderAlive'
                         /\ queue' = <<>>
                         /\ recvRet' = recvRet
                    ELSE /\ pc' # "recv"
                         /\ IsReconnectFault(recvRet')]_vars

\* a receive_frame met the drop, reconnected with connect, subscribe and a
\* new notification listener only, and is waiting on the new queue
C29_NoRediscovery ==
    /\ backend = "ble"
    /\ auto_reconnect
    /\ pc = "recv"
    /\ lastRead = "reconnected"
    /\ reconnects = 1
    /\ stackOps = <<"connect", "subscribe", "notifications",
                    "replace_rx_receiver">>
    /\ senderAlive
    /\ queue = <<>>

--------------------------------------------------------------------------
(* OTA timeouts *)

\* this step is ota_flash sending the frame of phase ph and starting the
\* wait for its Ack
OtaStartsWait(ph) ==
    /\ prog = "ota"
    /\ pc = "ota_send"
    /\ cur.phase = ph
    /\ pc' = "recv"

\* C30 as stated: ota_flash waits for the Ack of Begin and for the Ack of
\* End with the long timeout and for the Ack of each Data chunk with the
\* short timeout, and the long timeout is strictly greater than the short
\* one.
C30_OtaTimeouts ==
    [][/\ OTA_END_TIMEOUT_MS > OTA_TIMEOUT_MS
       /\ OtaStartsWait("begin") => rxTimeout' = OTA_END_TIMEOUT_MS
       /\ OtaStartsWait("data") => rxTimeout' = OTA_TIMEOUT_MS
       /\ OtaStartsWait("end") => rxTimeout' = OTA_END_TIMEOUT_MS]_vars

\* ota_flash has sent Begin and waits for its Ack with the short timeout
C30_BeginShortTimeout ==
    /\ prog = "ota"
    /\ pc = "recv"
    /\ cur.phase = "begin"
    /\ Len(written) = 1
    /\ rxTimeout = OTA_TIMEOUT_MS
    /\ rxTimeout < OTA_END_TIMEOUT_MS

--------------------------------------------------------------------------
(* Begin scenario: ota_flash is called with an image of one of a few sizes *)
(* and a version string of any length up to MaxVersionLen, and sends its   *)
(* Begin frame. Nothing fails on the medium.                                *)

\* image sizes whose little-endian bytes differ in the low three positions
BeginSizes == {1, 258, 66000}

\* a version string of len non-zero bytes
VersionOf(len) == SubSeq([i \in 1..len |-> 65 + (i % 26)], 1, len)

InitBegin ==
    /\ InitChan
    /\ prog = "ota"
    /\ auto_reconnect = FALSE

NextBegin ==
    \/ \E n \in BeginSizes, len \in 0..MaxVersionLen :
          OtaFlash(n, VersionOf(len), "ok")
    \/ OtaSendHappy

SpecBegin == InitBegin /\ [][NextBegin]_vars

\* the Begin frame has been written
BeginSent == Len(written) >= 1 /\ written[1].msg_type = OTA_BEGIN

\* byte i (from 0) of n written as a little-endian u32
LeByte(n, i) ==
    CASE i = 0 -> n % 256
      [] i = 1 -> (n \div 256) % 256
      [] i = 2 -> (n \div 65536) % 256
      [] i = 3 -> (n \div 16777216) % 256

\* payload p is the image size, the digest and a 32-byte version field
\* holding the first keep bytes of the version at most, then zeros
BeginLayout(p, keep) ==
    /\ Len(p) = 4 + SHA256_SIZE + VERSION_MAX_LEN
    /\ \A i \in 0..3 : p[i + 1] = LeByte(cur.total, i)
    /\ SubSeq(p, 5, 4 + SHA256_SIZE) = compute_sha256(Firmware(cur.total))
    /\ \A i \in 1..VERSION_MAX_LEN :
          p[4 + SHA256_SIZE + i] =
             IF i <= Len(cur.version) /\ i <= keep THEN cur.version[i] ELSE 0

\* C31 as stated: the Begin payload is exactly 68 bytes: the image size as
\* 4-byte little-endian, the 32-byte digest, then a 32-byte version field
\* holding the version string's bytes followed by zero padding, a version
\* longer than 32 bytes being truncated to its first 32 bytes.
C31_TruncatedTo32 ==
    BeginSent => BeginLayout(written[1].payload, VERSION_MAX_LEN)

\* C31: the Begin payload is exactly 68 bytes: the image size as 4-byte
\* little-endian, the 32-byte digest, then a 32-byte version field holding
\* at most the first 31 bytes of the version string followed by zero
\* padding, so that the last byte of the field is always zero; a version
\* of 32 bytes or more is truncated to its first 31 bytes.
C31_BeginPayload ==
    BeginSent =>
       /\ BeginLayout(written[1].payload, VERSION_MAX_LEN - 1)
       /\ written[1].payload[4 + SHA256_SIZE + VERSION_MAX_LEN] = 0

\* the Begin frame of a 66000-byte image with a version of exactly 32
\* bytes was written: the field ends with a zero in place of the 32nd byte
C31_Witness ==
    /\ BeginSent
    /\ pc = "recv"
    /\ cur.total = 66000
    /\ Len(cur.version) = VERSION_MAX_LEN
    /\ written[1].payload[4 + SHA256_SIZE + VERSION_MAX_LEN - 1] =
          cur.version[VERSION_MAX_LEN - 1]
    /\ written[1].payload[4 + SHA256_SIZE + VERSION_MAX_LEN] = 0
    /\ cur.version[VERSION_MAX_LEN] # 0

--------------------------------------------------------------------------
(* Decoder buffer bounds *)

\* the decoder has read a length field and accepted it
LengthAccepted ==
    decoder.state \in {"WaitType", "WaitPayload", "WaitCrc", "Complete"}

\* the CRC index is at most 4, and below 4 whenever a CRC byte is about to
\* be stored; a returned Frame has a payload of exactly length - 1 bytes
CrcIndexAndFrame ==
    /\ decoder.crc_index <= 4
    /\ decoder.state = "WaitCrc" => decoder.crc_index < 4
    /\ last.kind = "Frame" => Len(last.payload) = decoder.length - 1

\* C32 as stated: in every state reachable by feed_byte and reset calls the
\* number of buffered payload bytes is at most length - 1 and at most 1024,
\* the CRC index is at most 4 (and below 4 whenever a CRC byte is about to
\* be stored), and any Frame returned has a payload of exactly length - 1
\* bytes.
C32_BufferedBelowLength ==
    /\ Len(decoder.payload) <= decoder.length - 1
    /\ Len(decoder.payload) <= MAX_PAYLOAD_SIZE
    /\ CrcIndexAndFrame

\* C32: in every state reachable by feed_byte and reset calls the number of
\* buffered payload bytes is at most 1024; once a length field has been
\* read and accepted the length is in 1..1025 and the buffered bytes are
\* at most length - 1, and in every other state (no length read yet, only
\* its low byte read, or an out-of-range length refused) nothing is
\* buffered; the CRC index is at most 4, and below 4 whenever a CRC byte is
\* about to be stored; any Frame returned has a payload of exactly
\* length - 1 bytes.
C32_DecoderBuffer ==
    /\ Len(decoder.payload) <= MAX_PAYLOAD_SIZE
    /\ LengthAccepted =>
          /\ decoder.length \in 1..(MAX_PAYLOAD_SIZE + 1)
          /\ Len(decoder.payload) <= decoder.length - 1
    /\ ~LengthAccepted => decoder.payload = <<>>
    /\ CrcIndexAndFrame

\* the last CRC byte of a frame with a 1024-byte payload was fed and the
\* Frame returned
C32_Witness ==
    /\ last.kind = "Frame"
    /\ Len(last.payload) = MAX_PAYLOAD_SIZE
    /\ decoder.length = MAX_PAYLOAD_SIZE + 1
    /\ decoder.crc_index = 4
    /\ decoder.state = "Complete"

--------------------------------------------------------------------------
(* the next_offset of an Ack *)

\* the next_offset field of the Ack r
AckNextOffset(r) == U32Val(SubSeq(r.payload, 2, 5))

\* C33: ota_flash never uses the next_offset of an Ack: when a Data chunk
\* is answered by an Ack with status Ok, whatever its next_offset, the call
\* goes on at the offset it sent plus the length of the chunk it sent (to
\* the next Data chunk, or to End when the image is through), and the
\* offset of every Data frame written is the number of image bytes in the
\* Data frames written before it.
C33_AckOffsetIgnored ==
    /\ [][(OtaReceiveReturns("data") /\ IsAckOk(recvRet')) =>
             LET chunk == Min(OTA_CHUNK_SIZE, cur.total - cur.offset)
             IN  /\ ret' = Unit
                 /\ pc' = "ota_send"
                 /\ cur'.offset = cur.offset + chunk
                 /\ cur'.phase =
                       IF cur.offset + chunk < cur.total THEN "data"
                       ELSE "end"
                 /\ written' = written]_vars
    /\ [](\A i \in DataIndexes :
             OffsetField(written[i]) =
                U32ToLeBytes(AsU32(DataBytes(written, i - 1))))

\* the second Data chunk (offset 1016, 1016 bytes) was answered by an Ack
\* with status Ok and next_offset 0, and ota_flash is about to send the
\* third chunk at offset 2032
C33_Witness ==
    /\ prog = "ota"
    /\ pc = "ota_send"
    /\ cur.phase = "data"
    /\ cur.offset = 2 * OTA_CHUNK_SIZE
    /\ Len(written) = 3
    /\ IsAckOk(recvRet)
    /\ AckNextOffset(recvRet) = 0

--------------------------------------------------------------------------
(* Reply scenario: ota_flash of a one-byte image on serial or TCP, with a  *)
(* device that answers each frame with one well-framed reply of any of     *)
(* the shapes below; no fault on the medium, no timeout                    *)

\* Acks of 0, 1, 4, 5 and 6 payload bytes, status bytes inside and outside
\* 0..7, and Aborts with and without a reason byte
ReplyShapes ==
    {[msg_type |-> OTA_ACK, payload |-> <<>>],
     [msg_type |-> OTA_ACK, payload |-> <<0>>],
     [msg_type |-> OTA_ACK, payload |-> <<0, 0, 0, 0>>],
     [msg_type |-> OTA_ACK, payload |-> <<0, 0, 0, 0, 0>>],
     [msg_type |-> OTA_ACK, payload |-> <<0, 1, 0, 0, 0, 9>>],
     [msg_type |-> OTA_ACK, payload |-> <<1, 0, 0, 0, 0>>],
     [msg_type |-> OTA_ACK, payload |-> <<7, 0, 0, 0, 0>>],
     [msg_type |-> OTA_ACK, payload |-> <<8, 0, 0, 0, 0>>],
     [msg_type |-> OTA_ACK, payload |-> <<9, 0, 0, 0, 0>>],
     [msg_type |-> OTA_ACK, payload |-> <<255, 0, 0, 0, 0, 0>>],
     [msg_type |-> OTA_ABORT, payload |-> <<>>],
     [msg_type |-> OTA_ABORT, payload |-> <<0>>],
     [msg_type |-> OTA_ABORT, payload |-> <<200>>]}

\* ota_flash(transport, path, None) on a readable file of one byte
OtaFlashOneByte == OtaFlash(1, VERSION_UNKNOWN, "ok")

\* the device answers the oldest unanswered frame
DevAnswer ==
    /\ answered < Len(written)
    /\ answered' = answered + 1
    /\ \E f \in ReplyShapes :
          rxBytes' = rxBytes \o encode_frame(f.msg_type, f.payload).bytes
    /\ UNCHANGED <<idleVars, decVars, link, queue, senderAlive, noiseSent,
                   callVars, histVars>>

NextAck ==
    \/ OtaFlashOneByte
    \/ OtaSendHappy
    \/ RecvByte
    \/ DevAnswer

SpecAck == InitHappy /\ [][NextAck]_vars

\* this step is the return of a receive_frame of ota_flash with a Frame
OtaGetsFrame ==
    /\ prog = "ota"
    /\ pc = "recv"
    /\ pc' # "recv"
    /\ recvRet'.kind = "Frame"

\* ota_flash fails in this step with the fault named what
OtaFailsWith(what) ==
    /\ cur'.done
    /\ pc' = "idle"
    /\ ret'.kind = "Err"
    /\ ret'.what = what
    /\ written' = written

\* C34: a malformed acknowledgement is never treated as Ok. When
\* send_and_wait_ack gets a Frame, the step of ota_flash is accepted (the
\* call moves on to its next frame, or returns Ok after End) exactly when
\* the Frame is an Ack of 5 or more payload bytes whose first byte is 0.
\* An Ack of fewer than 5 payload bytes and an Abort with an empty payload
\* make the call fail; an Abort with a reason byte makes it fail as aborted
\* by the device, whatever the byte; an Ack of 5 or more bytes with a
\* non-zero status makes it fail with that status, a status byte outside
\* 0..7 being reported as Aborted.
C34_MalformedAck ==
    [][OtaGetsFrame =>
          LET f == recvRet'
          IN  /\ (ret' = Unit /\ cur' = OtaAdvance(cur)) <=>
                    (f.msg_type = OTA_ACK /\ Len(f.payload) >= 5
                        /\ f.payload[1] = 0)
              /\ ret' # Unit => cur'.done
              /\ (f.msg_type = OTA_ACK /\ Len(f.payload) < 5) =>
                    OtaFailsWith("AckTooShort")
              /\ (f.msg_type = OTA_ABORT /\ f.payload = <<>>) =>
                    OtaFailsWith("AbortEmpty")
              /\ (f.msg_type = OTA_ABORT /\ f.payload # <<>>) =>
                    OtaFailsWith("DeviceAborted")
              /\ (f.msg_type = OTA_ACK /\ Len(f.payload) >= 5
                     /\ f.payload[1] # 0) =>
                    /\ OtaFailsWith("Rejected")
                    /\ ret'.status = IF f.payload[1] <= 7 THEN f.payload[1]
                                     ELSE OTA_STATUS_ABORTED]_vars

\* Begin was accepted and the Data chunk was answered by an Ack of one
\* payload byte, the status byte 0: ota_flash failed and sent no End
C34_Witness ==
    /\ prog = "ota"
    /\ pc = "idle"
    /\ Len(written) = 2
    /\ recvRet = OkFrame(OTA_ACK, <<0>>)
    /\ ret = Err("AckTooShort")
    /\ cur.done
    /\ cur.phase = "data"

--------------------------------------------------------------------------
(* One encoded frame over a BLE channel with auto-reconnect: its bytes     *)
(* arrive cut into notifications of any lengths, and the connection may    *)
(* drop between two notifications; the bytes not yet notified arrive on    *)
(* the queue of the new connection                                          *)

InitResume ==
    /\ backend = "ble"
    /\ auto_reconnect = TRUE
    /\ prog = "receive"
    /\ input \in SplitInputs
    /\ enc = encode_frame(input.msg_type, input.payload)
    /\ wire = enc.bytes
    /\ rxBytes = wire
    /\ link = "up" /\ queue = <<>>
    /\ senderAlive = TRUE /\ answered = 0 /\ noiseSent = 0
    /\ pc = "idle" /\ cur = NoCall /\ ret = Unit /\ recvRet = Unit
    /\ expired = FALSE /\ rxTimeout = 0 /\ lastRead = "none" /\ ncmds = 0
    /\ written = <<>> /\ outstanding = 0 /\ reconnects = 0
    /\ stackOps = <<>>
    /\ pos = 0 /\ corrupted = 0
    /\ DecInit

NextResume ==
    \/ ReceiveNext
    \/ BleRecvData
    \/ \E k \in 1..MaxNotifyLen : Notify(k)
    \/ LinkDrop
    \/ \E rc \in ReconnectOutcomes : BleRecvDisconnected(rc)

SpecResume == InitResume /\ [][NextResume]_vars

\* this step is a successful reconnect made by a running receive_frame
ReconnectsInReceive ==
    /\ pc = "recv"
    /\ reconnects' = reconnects + 1
    /\ pc' = "recv"

\* C35: a successful BLE reconnect inside receive_frame leaves the decoder
\* as it was (state, length, buffered payload, CRC bytes) and resets
\* nothing; the queue it replaces holds no unread notification at that
\* point and the new queue starts empty; the bytes fed before the drop are
\* combined with the bytes arriving on the new queue, so a frame whose
\* notifications were separated by the drop is returned as it was encoded.
C35_ReconnectKeepsDecoder ==
    /\ [][ReconnectsInReceive =>
             /\ decoder' = decoder
             /\ last' = last
             /\ lastByte' = lastByte
             /\ nresults' = nresults
             /\ queue = <<>>
             /\ queue' = <<>>
             /\ senderAlive'
             /\ rxBytes' = rxBytes]_vars
    /\ []((cur # NoCall /\ pc = "idle") =>
             IF cur.got # <<>>
             THEN /\ cur.got = <<OkFrame(input.msg_type, input.payload)>>
                  /\ rxBytes = <<>>
                  /\ queue = <<>>
             ELSE cur.done => IsReconnectFault(ret))

\* receive_frame had buffered the first payload byte of the frame when the
\* connection dropped; it has reconnected, the decoder still holds that
\* byte, and the rest of the frame has not arrived yet
C35_Witness ==
    /\ pc = "recv"
    /\ lastRead = "reconnected"
    /\ reconnects = 1
    /\ decoder.state = "WaitPayload"
    /\ Len(decoder.payload) = 1
    /\ queue = <<>>
    /\ rxBytes # <<>>
    /\ senderAlive

--------------------------------------------------------------------------
(* Back-to-back frames on serial and TCP: the device answers a command     *)
(* with its reply (well formed, with a wrong CRC byte, or a header with    *)
(* length 0) followed at once by a second well-formed frame; the caller    *)
(* makes send_command calls one after the other                             *)

ExtraFrame == OkFrame(64, <<7>>)
ExtraBytes == encode_frame(ExtraFrame.msg_type, ExtraFrame.payload).bytes

InitBack ==
    /\ InitLive
    /\ backend \in {"serial", "tcp"}

\* the device answers the oldest unanswered request and sends ExtraFrame
\* right behind the answer
DevReplyTwice ==
    /\ answered < Len(written)
    /\ answered' = answered + 1
    /\ \E how \in Hows :
          rxBytes' = rxBytes
                        \o DeviceBytes(ReplyTo(written[answered + 1]), how)
                        \o ExtraBytes
    /\ UNCHANGED <<idleVars, decVars, link, queue, senderAlive, noiseSent,
                   callVars, histVars>>

NextBack ==
    \/ CallLive
    \/ RecvByte
    \/ DevReplyTwice

SpecBack == InitBack /\ [][NextBack]_vars

\* r is what receive_frame returns for a frame read to its last byte: the
\* Frame, or the fault of a wrong CRC
EndsAtLastByte(r) ==
    \/ r.kind = "Frame"
    \/ r.kind = "Err" /\ r.what = "Decode" /\ r.cause.kind = "CrcMismatch"

\* C36: serial and TCP receive_frame take the medium's bytes one at a time
\* and in order, and return on the byte on which the decoder gives its
\* result, a Frame or a fault, taking nothing after it: after a frame that
\* was read to its last byte the bytes of the frame sent right behind it
\* are all still on the medium, and the next receive_frame call returns
\* that frame whole.
C36_StopsAtResult ==
    /\ [][(pc = "recv" /\ Len(rxBytes') < Len(rxBytes)) =>
             /\ rxBytes' = Tail(rxBytes)
             /\ lastByte' = Head(rxBytes)]_vars
    /\ [][(pc = "recv" /\ pc' # "recv") =>
             /\ last' # None
             /\ recvRet' = map_err(last')
             /\ rxBytes' = Tail(rxBytes)]_vars
    /\ []((pc = "idle" /\ Len(written) = 1 /\ answered = 1
              /\ EndsAtLastByte(recvRet)) => rxBytes = ExtraBytes)
    /\ [][(pc = "recv" /\ pc' # "recv" /\ Len(written) = 2
              /\ EndsAtLastByte(recvRet)) => recvRet' = ExtraFrame]_vars

\* the device answered the first send_command only; the second
\* send_command has returned the frame that was sent right behind that
\* answer, from one decoder result, and the medium is empty
C36_Witness ==
    /\ backend = "tcp"
    /\ pc = "idle"
    /\ ncmds = 2
    /\ Len(written) = 2
    /\ answered = 1
    /\ recvRet = ExtraFrame
    /\ rxBytes = <<>>
    /\ nresults = 1

--------------------------------------------------------------------------
(* Termination of ota_flash: one ota_flash on a channel of any backend,    *)
(* with the device answering or staying silent and the link dropping, as   *)
(* in the channel scenario. The program goes on running (send_frame        *)
(* returns), and a receive_frame that waits returns at the latest when     *)
(* its timeout has elapsed.                                                 *)

InitOta ==
    /\ InitChan
    /\ prog = "ota"

\* send_and_wait_ack for the next frame of ota_flash, with any outcome
OtaSendAny ==
    \E w \in WriteOutcomes(backend), rc \in SendReconnectOutcomes,
       st \in SetTimeoutOutcomes : OtaSend(w, rc, st)

NextOta ==
    \/ \E f \in FlashInputs, file \in FileOutcomes :
          OtaFlash(f.n, f.version, file)
    \/ OtaSendAny
    \/ RecvTimeout
    \/ RecvByte
    \/ \E ev \in StreamReadOutcomes : RecvNoByte(ev)
    \/ BleRecvData
    \/ BleRecvWaitTimeout
    \/ \E rc \in ReconnectOutcomes : BleRecvDisconnected(rc)
    \/ Tick
    \/ DevReply
    \/ LinkDrop

\* ota_flash goes on from a send_and_wait_ack it has reached: its
\* send_frame returns and the call either waits for the reply or returns.
\* In this scenario these are the steps of OtaSendAny, which is enabled
\* whenever pc = "ota_send".
OtaProceeds == pc = "ota_send" /\ pc' \in {"recv", "idle"}

SpecOta ==
    /\ InitOta
    /\ [][NextOta]_vars
    /\ WF_pc(OtaProceeds)
    /\ WF_vars(Tick)
    /\ WF_vars(RecvTimeout)

\* ceil(total / OTA_CHUNK_SIZE)
ChunkCount(total) == (total + OTA_CHUNK_SIZE - 1) \div OTA_CHUNK_SIZE

\* C37: ota_flash terminates. A call of ota_flash ends, in success or in
\* failure; it writes at most ceil(total / chunk size) Data frames; every
\* Data chunk answered by an Ack with status Ok moves its offset strictly
\* forward, and the offset never exceeds total.
C37_OtaTerminates ==
    /\ (cur # NoCall) ~> OtaDone
    /\ [](cur # NoCall =>
             /\ Cardinality(DataIndexes) <= ChunkCount(cur.total)
             /\ cur.offset <= cur.total
             /\ cur.done => (ret = Unit \/ ret.kind = "Err"))
    /\ [][(OtaReceiveReturns("data") /\ IsAckOk(recvRet')) =>
             /\ cur'.offset > cur.offset
             /\ cur'.offset <= cur.total]_vars

\* ota_flash of the 1017-byte image has returned Ok after two Data frames
C37_Witness ==
    /\ OtaDone
    /\ ret = Unit
    /\ cur.total = OTA_CHUNK_SIZE + 1
    /\ cur.offset = cur.total
    /\ Cardinality(DataIndexes) = 2
    /\ Len(written) = 4

--------------------------------------------------------------------------
(* The terminal states of the decoder and reset *)

\* this step is a reset() of the stream scenario
ResetsStream == pos' = pos

\* C38: the decoder enters Error only on a length high byte that makes the
\* length 0 or more than 1025; a checksum mismatch leaves it in Complete,
\* as a successful frame does; in Complete and in Error feed_byte changes
\* nothing and returns nothing; reset from any state gives exactly the
\* state of a new decoder (WaitStart0, length 0, empty payload, CRC index
\* 0, and the other fields zero), and a second reset changes nothing.
C38_TerminalStates ==
    /\ [][/\ (FeedsWire /\ decoder'.state = "Error"
                 /\ decoder.state # "Error") =>
                /\ FailsLength
                /\ last'.kind = "InvalidLength"
                /\ decoder'.length \notin 1..(MAX_PAYLOAD_SIZE + 1)
          /\ (FeedsWire /\ last'.kind \in {"CrcMismatch", "Frame"}) =>
                /\ CompletesCrc
                /\ decoder'.state = "Complete"
          /\ (FeedsWire /\ decoder.state \in {"Complete", "Error"}) =>
                /\ decoder' = decoder
                /\ last' = None
          /\ ResetsStream =>
                /\ decoder' = FrameDecoder_new
                /\ decoder' = reset(decoder)]_vars
    /\ [](/\ reset(decoder) = FrameDecoder_new
          /\ reset(reset(decoder)) = reset(decoder)
          /\ decoder.state = "Error" =>
                decoder.length \notin 1..(MAX_PAYLOAD_SIZE + 1))

\* a frame with a wrong checksum left the decoder in Complete with its
\* two payload bytes still buffered, and a byte fed after it was ignored
C38_Witness ==
    /\ decoder.state = "Complete"
    /\ Len(decoder.payload) = 2
    /\ nresults = 1
    /\ last = None
    /\ pos = FRAME_OVERHEAD + 2 + 1

--------------------------------------------------------------------------
(* The size of a Data message *)

\* the Data payload p is 6 bytes and a chunk of at most OTA_CHUNK_SIZE
\* bytes, its length field holds the length of the chunk, and it is within
\* the frame payload ceiling
DataPayloadFits(p) ==
    /\ Len(p) >= 6
    /\ Len(p) - 6 <= OTA_CHUNK_SIZE
    /\ Len(p) <= 6 + OTA_CHUNK_SIZE
    /\ 6 + OTA_CHUNK_SIZE <= MAX_PAYLOAD_SIZE
    /\ Len(p) - 6 < 65536
    /\ p[5] + 256 * p[6] = Len(p) - 6

\* C39: every Data payload ota_flash builds is 6 bytes and a chunk, at most
\* 1022 bytes, which is within the 1024-byte payload ceiling of a frame:
\* encode_frame never answers it with PayloadTooLarge, no call ends with
\* that error, and the 2-byte length field holds the length of the chunk.
C39_DataFits ==
    /\ (prog = "ota" /\ pc = "ota_send" /\ cur.phase = "data") =>
          LET m == OtaMessage(cur)
          IN  /\ m.msg_type = OTA_DATA
              /\ DataPayloadFits(m.payload)
              /\ Len(m.payload) =
                    6 + Min(OTA_CHUNK_SIZE, cur.total - cur.offset)
              /\ encode_frame(m.msg_type, m.payload).kind = "Bytes"
    /\ \A i \in DataIndexes : DataPayloadFits(written[i].payload)
    /\ ret.kind = "Err" => ret.what # "Encode"

\* a Data frame with a full chunk of 1016 bytes, a payload of 1022 bytes,
\* was written and acknowledged, and the last chunk of one byte is about to
\* be sent
C39_Witness ==
    /\ prog = "ota"
    /\ pc = "ota_send"
    /\ cur.phase = "data"
    /\ cur.offset = OTA_CHUNK_SIZE
    /\ cur.total = OTA_CHUNK_SIZE + 1
    /\ Len(written) = 2
    /\ Len(written[2].payload) = MAX_PAYLOAD_SIZE - 2

==========================================================================
